---- MODULE Spec2Model ----
(***************************************************************************)
(* Model of the intraday trading bot: the opening-range-breakout strategy  *)
(* (src/src/strategy/opening_range_breakout.py) as a state machine driven  *)
(* by a wall clock and by generate_signal calls, and the risk manager      *)
(* (src/src/risk/manager.py) driven by the calendar and by its callers;    *)
(* the backtest engine (src/backtest/engine.py) run bar by bar; and the    *)
(* live trading loops (src/main.py, src/main_orb.py) with their handlers.  *)
(*                                                                         *)
(* Conventions                                                             *)
(*  - a time of day is a number of minutes since midnight (all the phase   *)
(*    boundaries of the code are whole minutes, so comparing minutes gives *)
(*    the same result as comparing datetime.time values);                  *)
(*  - a date is a day number >= 1, NoDate stands for Python's None;        *)
(*  - prices, volumes and equity are integers; a float parameter p is the  *)
(*    fraction P_NUM / P_DEN and every float comparison of the code is     *)
(*    stated cross-multiplied, which is exact on the values used here;     *)
(*  - a Python dict is a function whose DOMAIN is the set of its keys;     *)
(*  - a method that mutates self is an operator from the object's fields   *)
(*    (a record "self") to [self |-> the fields after, sig |-> the result].*)
(***************************************************************************)
EXTENDS Integers, Sequences, FiniteSets, TLC

VARIABLES
    opening_ranges,          \* self.opening_ranges : symbol -> OpeningRange
    positions,               \* self.positions      : symbol -> ORBPosition
    daily_pnl,               \* self.daily_pnl
    daily_starting_equity,   \* self.daily_starting_equity
    last_reset_date,         \* self.last_reset_date
    is_daily_stopped,        \* self.is_daily_stopped
    max_positions,           \* self.max_positions   (constructor argument)
    check_false_breakout,    \* self.check_false_breakout (constructor arg.)
    now,                     \* the wall clock: [date, minute]
    loop_phase,              \* the phase the trading loop last asked for
    signal,                  \* the Signal returned by the last call
    call,                    \* the last call: its arguments and what it saw
    realized,                \* history: pnl of the positions closed since reset
    trades,                  \* history: number of BUY signals emitted
    risk_manager,            \* the fields of the RiskManager object
    risk_call,               \* the last RiskManager call: arguments, result
    last_observation,        \* history: the day of the last equity observation
    backtest,                \* the locals of one BacktestEngine.run
    bot                      \* a trading bot's run_trading_loop: flag, position

\* the fields of the strategy object, and its constructor arguments
strategy == <<opening_ranges, positions, daily_pnl, daily_starting_equity,
              last_reset_date, is_daily_stopped>>
config == <<max_positions, check_false_breakout>>

\* the risk manager and the record of its last call
risk == <<risk_manager, risk_call, last_observation>>

vars == <<strategy, config, now, loop_phase, signal, call, realized, trades,
          risk, backtest, bot>>

----------------------------------------------------------------------------
\* Bounds of the model

MaxDay == 2
MaxTrades == 2
MaxPositions == 2
OrBarsBound == 4
MaxRiskDay == 8
TailBound == 3
MetricsBound == 3
MaxIterations == 3

----------------------------------------------------------------------------
\* Program constants

MARKET_OPEN == 570
OR_CALC_START == 575
OR_CALC_END == 585
ENTRY_WINDOW_END == 660
FORCE_CLOSE_TIME == 955
MARKET_CLOSE == 960

RISK_PCT_NUM == 25
RISK_PCT_DEN == 10000
DAILY_MAX_LOSS_NUM == 2
DAILY_MAX_LOSS_DEN == 100
VOLUME_MULT_NUM == 3
VOLUME_MULT_DEN == 2
MIN_OR_RANGE_NUM == 2
MIN_OR_RANGE_DEN == 1000
RISK_REWARD_RATIO == 2
MIN_OR_BARS == 5
AVG_VOLUME_BARS == 20

NoDate == 0

----------------------------------------------------------------------------
\* The inputs the environment supplies

Symbols == {"SPY", "QQQ"}

\* account equity: an account with nothing left, and a funded one
Equities == {0, 120000}
Equity == CHOOSE e \in Equities : e > 0

\* <<high, low, volume>> of the bars that lie in the opening-range window:
\* a valid band (range 3%) and a flat, invalid one
OrBands == {<<103, 100, 100>>, <<101, 101, 100>>}

\* The current bar and the account equity of one evaluation after the
\* window has closed, <<close, volume, equity>>.  Against the band <<103, 100>>
\* and a position entered at 104 (stop 101, target 110):
Quotes ==
    { <<80, 400, Equity>>,    \* a crash: exactly -2% of equity on 100 shares
      <<101, 400, Equity>>,   \* the stop level
      <<102, 400, Equity>>,   \* between stop and OR high
      <<103, 400, Equity>>,   \* the OR high
      <<104, 400, Equity>>,   \* a breakout on volume
      <<104, 150, Equity>>,   \* a breakout, volume exactly 1.5 x average
      <<104, 400, 0>>,        \* a breakout the account cannot fund
      <<104, 400, Equity + 1000>>,  \* a breakout that funds 100.83 shares
      <<110, 150, Equity>> }  \* the target level

PhaseTimes == {0, MARKET_OPEN, OR_CALC_START, OR_CALC_END, ENTRY_WINDOW_END,
               FORCE_CLOSE_TIME, MARKET_CLOSE}

Bar(d, m, h, l, c, v) ==
    [date |-> d, minute |-> m, high |-> h, low |-> l, close |-> c, volume |-> v]

\* k one-minute bars from 09:35 on of day d, spanning the band
WindowBars(d, k, band) ==
    [i \in 1..k |->
        Bar(d, OR_CALC_START + i - 1, IF i = 1 THEN band[1] ELSE band[2],
            band[2], band[2], band[3])]

InOrWindow(m) == OR_CALC_START <= m /\ m < OR_CALC_END

\* The inputs <<df, equity>> of an evaluation at time t.  The trading loop
\* skips a symbol whose fetch returned nothing, so the bar series is never
\* empty: it is window bars followed by the current bar.  While the window
\* is open the series varies in the number of window bars, in their band and
\* in their day (today, or stale bars of the day before), and the current
\* bar is one more window bar; later the current bar and the equity vary.
Inputs(t) ==
    IF InOrWindow(t.minute)
    THEN { <<WindowBars(x[1], x[2], x[3])
               \o <<Bar(t.date, t.minute, x[3][2], x[3][2], x[3][2], x[3][3])>>,
             e>> :
           x \in ({t.date} \X {OrBarsBound - 1, OrBarsBound} \X OrBands)
                   \cup {<<t.date - 1, OrBarsBound, <<103, 100, 100>> >>},
           e \in Equities }
    ELSE { <<WindowBars(t.date, OrBarsBound, <<103, 100, 100>>)
               \o <<Bar(t.date, t.minute, q[1], q[1], q[1], q[2])>>,
             q[3]>> : q \in Quotes }

----------------------------------------------------------------------------
\* Helpers

SetMax(S) == CHOOSE x \in S : \A y \in S : y <= x
SetMin(S) == CHOOSE x \in S : \A y \in S : x <= y

RECURSIVE SeqSum(_)
SeqSum(s) == IF s = << >> THEN 0 ELSE Head(s) + SeqSum(Tail(s))

RECURSIVE Gcd(_, _)
Gcd(a, b) == IF b = 0 THEN a ELSE Gcd(b, a % b)

\* the value sum / n of a mean, as a fraction in lowest terms
Mean(sum, n) == [num |-> sum \div Gcd(sum, n), den |-> n \div Gcd(sum, n)]

\* pandas tail(n)
TailN(s, n) == IF Len(s) <= n THEN s ELSE SubSeq(s, Len(s) - n + 1, Len(s))

\* dict operations
DictSet(d, k, v) == [x \in DOMAIN d \cup {k} |-> IF x = k THEN v ELSE d[x]]
DictDel(d, k) == [x \in DOMAIN d \ {k} |-> d[x]]
EmptyDict == [x \in {} |-> x]

df_empty(df) == Len(df) = 0

\* df.iloc[-1]["close"] if not df.empty else 0
current_price(df) == IF df_empty(df) THEN 0 ELSE df[Len(df)].close

Self ==
    [opening_ranges |-> opening_ranges, positions |-> positions,
     daily_pnl |-> daily_pnl, daily_starting_equity |-> daily_starting_equity,
     last_reset_date |-> last_reset_date, is_daily_stopped |-> is_daily_stopped]

NoOR == [none |-> TRUE]

----------------------------------------------------------------------------
\* OpeningRangeBreakoutStrategy

\* a reset that forgets the positions map
reset_daily_state_keeping_positions(self, equity, today) ==
    [self EXCEPT !.opening_ranges = EmptyDict,
                 !.daily_pnl = 0,
                 !.daily_starting_equity = equity,
                 !.last_reset_date = today,
                 !.is_daily_stopped = FALSE]

\* reset_daily_state; today is datetime.now(ET).date()
reset_daily_state(self, equity, today) ==
    [self EXCEPT !.opening_ranges = EmptyDict,
                 !.positions = EmptyDict,
                 !.daily_pnl = 0,
                 !.daily_starting_equity = equity,
                 !.last_reset_date = today,
                 !.is_daily_stopped = FALSE]

\* a phase function whose windows close one minute late (<= for <)
get_trading_phase_inclusive(t) ==
    IF t <= MARKET_OPEN THEN "pre_market"
    ELSE IF t <= OR_CALC_START THEN "noise"
    ELSE IF t <= OR_CALC_END THEN "calc_or"
    ELSE IF t <= ENTRY_WINDOW_END THEN "entry_window"
    ELSE IF t <= FORCE_CLOSE_TIME THEN "manage_only"
    ELSE IF t <= MARKET_CLOSE THEN "force_close"
    ELSE "after_hours"

\* get_trading_phase, t the time of day in minutes
get_trading_phase(t) ==
    IF t < MARKET_OPEN THEN "pre_market"
    ELSE IF t < OR_CALC_START THEN "noise"
    ELSE IF t < OR_CALC_END THEN "calc_or"
    ELSE IF t < ENTRY_WINDOW_END THEN "entry_window"
    ELSE IF t < FORCE_CLOSE_TIME THEN "manage_only"
    ELSE IF t < MARKET_CLOSE THEN "force_close"
    ELSE "after_hours"

\* is_valid = (or_range / or_low) >= min_or_range_pct, on numpy floats: a
\* division by zero gives inf (range > 0) or nan (range = 0), not an error
or_is_valid(or_range, or_low) ==
    IF or_low = 0 THEN or_range > 0
    ELSE IF or_low < 0 THEN or_range * MIN_OR_RANGE_DEN <= MIN_OR_RANGE_NUM * or_low
    ELSE or_range * MIN_OR_RANGE_DEN >= MIN_OR_RANGE_NUM * or_low

\* the bars of today inside [OR_CALC_START, OR_CALC_END)
or_window_bars(bars_1m, today) ==
    LET InWindow(b) == b.date = today /\ OR_CALC_START <= b.minute
                                       /\ b.minute < OR_CALC_END
    IN  SelectSeq(bars_1m, InWindow)

\* an opening range that settles for one bar fewer in the window
calculate_opening_range_one_bar_short(self, symbol, bars_1m, today) ==
    LET or_bars == or_window_bars(bars_1m, today) IN
    IF df_empty(bars_1m) THEN [self |-> self, result |-> NoOR]
    ELSE IF Len(or_bars) < MIN_OR_BARS - 1 THEN [self |-> self, result |-> NoOR]
    ELSE
      LET or_high == SetMax({or_bars[i].high : i \in 1..Len(or_bars)})
          or_low == SetMin({or_bars[i].low : i \in 1..Len(or_bars)})
          or_range == or_high - or_low
          last20 == TailN(bars_1m, AVG_VOLUME_BARS)
          opening_range ==
              [symbol |-> symbol, date |-> today, high |-> or_high,
               low |-> or_low, range |-> or_range,
               avg_volume |-> Mean(SeqSum([i \in 1..Len(last20) |-> last20[i].volume]),
                                   Len(last20)),
               is_valid |-> or_is_valid(or_range, or_low)]
      IN  [self |-> [self EXCEPT !.opening_ranges =
                         DictSet(self.opening_ranges, symbol, opening_range)],
           result |-> opening_range]

\* calculate_opening_range: [self, result]; result is NoOR for None.
\* avg_volume is the mean of the last 20 volumes, kept as a fraction.
calculate_opening_range(self, symbol, bars_1m, today) ==
    LET or_bars == or_window_bars(bars_1m, today) IN
    IF df_empty(bars_1m) THEN [self |-> self, result |-> NoOR]
    ELSE IF Len(or_bars) < MIN_OR_BARS THEN [self |-> self, result |-> NoOR]
    ELSE
      LET or_high == SetMax({or_bars[i].high : i \in 1..Len(or_bars)})
          or_low == SetMin({or_bars[i].low : i \in 1..Len(or_bars)})
          or_range == or_high - or_low
          last20 == TailN(bars_1m, AVG_VOLUME_BARS)
          opening_range ==
              [symbol |-> symbol, date |-> today, high |-> or_high,
               low |-> or_low, range |-> or_range,
               avg_volume |-> Mean(SeqSum([i \in 1..Len(last20) |-> last20[i].volume]),
                                   Len(last20)),
               is_valid |-> or_is_valid(or_range, or_low)]
      IN  [self |-> [self EXCEPT !.opening_ranges =
                         DictSet(self.opening_ranges, symbol, opening_range)],
           result |-> opening_range]

\* an entry test that takes equality for a breakout (>= for >)
check_entry_signal_inclusive(current_bar, opening_range) ==
    IF ~opening_range.is_valid THEN FALSE
    ELSE
      LET breakout == current_bar.close >= opening_range.high
          volume_confirm ==
              current_bar.volume * VOLUME_MULT_DEN * opening_range.avg_volume.den
                >= VOLUME_MULT_NUM * opening_range.avg_volume.num
      IN  breakout /\ volume_confirm

\* check_entry_signal: close > OR.high and volume > volume_multiplier * avg
check_entry_signal(current_bar, opening_range) ==
    IF ~opening_range.is_valid THEN FALSE
    ELSE
      LET breakout == current_bar.close > opening_range.high
          volume_confirm ==
              current_bar.volume * VOLUME_MULT_DEN * opening_range.avg_volume.den
                > VOLUME_MULT_NUM * opening_range.avg_volume.num
      IN  breakout /\ volume_confirm

\* a position size that rounds up to the next share
calculate_position_size_rounding_up(entry_price, stop_loss, equity) ==
    LET risk_per_share == entry_price - stop_loss IN
    IF risk_per_share <= 0 THEN 0
    ELSE LET num == equity * RISK_PCT_NUM
             den == RISK_PCT_DEN * risk_per_share
             shares == IF num >= 0 THEN (num + den - 1) \div den
                                   ELSE 0 - ((0 - num) \div den)
         IN  IF shares > 0 THEN shares ELSE 0

\* calculate_position_size: int(equity * risk_pct / (entry - stop)), >= 0
calculate_position_size(entry_price, stop_loss, equity) ==
    LET risk_per_share == entry_price - stop_loss IN
    IF risk_per_share <= 0 THEN 0
    ELSE LET num == equity * RISK_PCT_NUM
             den == RISK_PCT_DEN * risk_per_share
             shares == IF num >= 0 THEN num \div den ELSE 0 - ((0 - num) \div den)
         IN  IF shares > 0 THEN shares ELSE 0

Signal(symbol, type, strength, price, sl, tp, shares, reason) ==
    [symbol |-> symbol, signal_type |-> type, strength |-> strength,
     price |-> price, stop_loss |-> sl, take_profit |-> tp,
     shares |-> shares, reason |-> reason]

\* _hold_signal
hold_signal(self, symbol, df) ==
    [self |-> self,
     sig |-> Signal(symbol, "HOLD", 0, current_price(df), "None", "None", "None", "None")]

\* a sell that overwrites the day's pnl with the trade's (= for +=)
sell_signal_overwriting_pnl(self, symbol, df, reason) ==
    LET price == current_price(df)
        after ==
          IF symbol \in DOMAIN self.positions
          THEN LET position == self.positions[symbol]
                   pnl == (price - position.entry_price) * position.shares
               IN  [self EXCEPT !.daily_pnl = pnl,
                                !.positions = DictDel(self.positions, symbol)]
          ELSE self
    IN  [self |-> after,
         sig |-> Signal(symbol, "SELL", 1, price, "None", "None", "None", reason)]

\* _sell_signal: realizes the pnl of the symbol's position and removes it
sell_signal(self, symbol, df, reason) ==
    LET price == current_price(df)
        after ==
          IF symbol \in DOMAIN self.positions
          THEN LET position == self.positions[symbol]
                   pnl == (price - position.entry_price) * position.shares
               IN  [self EXCEPT !.daily_pnl = self.daily_pnl + pnl,
                                !.positions = DictDel(self.positions, symbol)]
          ELSE self
    IN  [self |-> after,
         sig |-> Signal(symbol, "SELL", 1, price, "None", "None", "None", reason)]

\* _buy_signal (entry_time is written and never read: not kept)
buy_signal(self, symbol, df, opening_range, equity) ==
    LET price == current_price(df)
        stop_loss == price - opening_range.range
        take_profit == price + RISK_REWARD_RATIO * opening_range.range
        shares == calculate_position_size(price, stop_loss, equity)
    IN  IF shares <= 0 THEN hold_signal(self, symbol, df)
        ELSE [self |-> [self EXCEPT !.positions =
                          DictSet(self.positions, symbol,
                                  [symbol |-> symbol, entry_price |-> price,
                                   shares |-> shares, stop_loss |-> stop_loss,
                                   take_profit |-> take_profit,
                                   or_high |-> opening_range.high])],
              sig |-> Signal(symbol, "BUY", 1, price, stop_loss, take_profit,
                             shares, "breakout")]

\* an exit check that misses a close exactly at the stop (< for <=)
check_exit_conditions_strict_stop(self, symbol, df) ==
    IF symbol \notin DOMAIN self.positions THEN hold_signal(self, symbol, df)
    ELSE IF df_empty(df) THEN hold_signal(self, symbol, df)
    ELSE
      LET position == self.positions[symbol]
          price == current_price(df)
      IN  IF price < position.stop_loss
            THEN sell_signal(self, symbol, df, "stop_loss")
          ELSE IF price >= position.take_profit
            THEN sell_signal(self, symbol, df, "take_profit")
          ELSE IF check_false_breakout /\ price < position.or_high
            THEN sell_signal(self, symbol, df, "false_breakout")
          ELSE hold_signal(self, symbol, df)

\* an exit check that raises a held position's stop by one on every HOLD
check_exit_conditions_trailing(self, symbol, df) ==
    IF symbol \notin DOMAIN self.positions THEN hold_signal(self, symbol, df)
    ELSE IF df_empty(df) THEN hold_signal(self, symbol, df)
    ELSE
      LET position == self.positions[symbol]
          price == current_price(df)
      IN  IF price <= position.stop_loss
            THEN sell_signal(self, symbol, df, "stop_loss")
          ELSE IF price >= position.take_profit
            THEN sell_signal(self, symbol, df, "take_profit")
          ELSE IF check_false_breakout /\ price < position.or_high
            THEN sell_signal(self, symbol, df, "false_breakout")
          ELSE hold_signal(
                 [self EXCEPT !.positions =
                    DictSet(self.positions, symbol,
                            [position EXCEPT !.stop_loss = @ + 1])],
                 symbol, df)

\* _check_exit_conditions
check_exit_conditions(self, symbol, df) ==
    IF symbol \notin DOMAIN self.positions THEN hold_signal(self, symbol, df)
    ELSE IF df_empty(df) THEN hold_signal(self, symbol, df)
    ELSE
      LET position == self.positions[symbol]
          price == current_price(df)
      IN  IF price <= position.stop_loss
            THEN sell_signal(self, symbol, df, "stop_loss")
          ELSE IF price >= position.take_profit
            THEN sell_signal(self, symbol, df, "take_profit")
          ELSE IF check_false_breakout /\ price < position.or_high
            THEN sell_signal(self, symbol, df, "false_breakout")
          ELSE hold_signal(self, symbol, df)

\* an entry window whose cap is off by one (> for >=)
process_entry_window_cap_off_by_one(self, symbol, df, equity) ==
    IF Cardinality(DOMAIN self.positions) > max_positions
      THEN hold_signal(self, symbol, df)
    ELSE IF symbol \in DOMAIN self.positions
      THEN check_exit_conditions(self, symbol, df)
    ELSE IF symbol \notin DOMAIN self.opening_ranges
            \/ ~self.opening_ranges[symbol].is_valid
      THEN hold_signal(self, symbol, df)
    ELSE IF df_empty(df) THEN hold_signal(self, symbol, df)
    ELSE IF check_entry_signal(df[Len(df)], self.opening_ranges[symbol])
      THEN buy_signal(self, symbol, df, self.opening_ranges[symbol], equity)
    ELSE hold_signal(self, symbol, df)

\* _process_entry_window
process_entry_window(self, symbol, df, equity) ==
    IF Cardinality(DOMAIN self.positions) >= max_positions
      THEN hold_signal(self, symbol, df)
    ELSE IF symbol \in DOMAIN self.positions
      THEN check_exit_conditions(self, symbol, df)
    ELSE IF symbol \notin DOMAIN self.opening_ranges
            \/ ~self.opening_ranges[symbol].is_valid
      THEN hold_signal(self, symbol, df)
    ELSE IF df_empty(df) THEN hold_signal(self, symbol, df)
    ELSE IF check_entry_signal(df[Len(df)], self.opening_ranges[symbol])
      THEN buy_signal(self, symbol, df, self.opening_ranges[symbol], equity)
    ELSE hold_signal(self, symbol, df)

\* a manage-only phase that still takes entries
process_manage_only_entering(self, symbol, df) ==
    IF symbol \in DOMAIN self.positions
      THEN check_exit_conditions(self, symbol, df)
    ELSE IF symbol \in DOMAIN self.opening_ranges /\ ~df_empty(df)
            /\ check_entry_signal(df[Len(df)], self.opening_ranges[symbol])
      THEN buy_signal(self, symbol, df, self.opening_ranges[symbol], Equity)
    ELSE hold_signal(self, symbol, df)

\* _process_manage_only
process_manage_only(self, symbol, df) ==
    IF symbol \in DOMAIN self.positions
      THEN check_exit_conditions(self, symbol, df)
      ELSE hold_signal(self, symbol, df)

\* a loss check that misses a loss of exactly the limit (< for <=)
daily_loss_reached_strict(self) ==
    /\ self.daily_starting_equity > 0
    /\ self.daily_pnl * DAILY_MAX_LOSS_DEN
         < 0 - DAILY_MAX_LOSS_NUM * self.daily_starting_equity

\* daily_pnl / daily_starting_equity <= -daily_max_loss_pct
daily_loss_reached(self) ==
    /\ self.daily_starting_equity > 0
    /\ self.daily_pnl * DAILY_MAX_LOSS_DEN
         <= 0 - DAILY_MAX_LOSS_NUM * self.daily_starting_equity

\* a dispatch that computes the opening range on every calc_or call
dispatch_signal_recomputing(self, df, symbol, equity, phase, today) ==
    IF self.is_daily_stopped THEN hold_signal(self, symbol, df)
    ELSE IF daily_loss_reached(self)
      THEN LET stopped == [self EXCEPT !.is_daily_stopped = TRUE]
           IN  IF symbol \in DOMAIN stopped.positions
                 THEN sell_signal(stopped, symbol, df, "daily_risk_stop")
                 ELSE hold_signal(stopped, symbol, df)
    ELSE IF phase = "pre_market" \/ phase = "noise"
      THEN hold_signal(self, symbol, df)
    ELSE IF phase = "calc_or"
      THEN hold_signal(calculate_opening_range(self, symbol, df, today).self,
                       symbol, df)
    ELSE IF phase = "entry_window"
      THEN process_entry_window(self, symbol, df, equity)
    ELSE IF phase = "manage_only"
      THEN process_manage_only(self, symbol, df)
    ELSE IF phase = "force_close"
      THEN IF symbol \in DOMAIN self.positions
             THEN sell_signal(self, symbol, df, "force_close_eod")
             ELSE hold_signal(self, symbol, df)
    ELSE hold_signal(self, symbol, df)

\* generate_signal from the daily-stop check on (after the daily reset)
dispatch_signal(self, df, symbol, equity, phase, today) ==
    IF self.is_daily_stopped THEN hold_signal(self, symbol, df)
    ELSE IF daily_loss_reached(self)
      THEN LET stopped == [self EXCEPT !.is_daily_stopped = TRUE]
           IN  IF symbol \in DOMAIN stopped.positions
                 THEN sell_signal(stopped, symbol, df, "daily_risk_stop")
                 ELSE hold_signal(stopped, symbol, df)
    ELSE IF phase = "pre_market" \/ phase = "noise"
      THEN hold_signal(self, symbol, df)
    ELSE IF phase = "calc_or"
      THEN IF symbol \notin DOMAIN self.opening_ranges
             THEN hold_signal(calculate_opening_range(self, symbol, df, today).self,
                              symbol, df)
             ELSE hold_signal(self, symbol, df)
    ELSE IF phase = "entry_window"
      THEN process_entry_window(self, symbol, df, equity)
    ELSE IF phase = "manage_only"
      THEN process_manage_only(self, symbol, df)
    ELSE IF phase = "force_close"
      THEN IF symbol \in DOMAIN self.positions
             THEN sell_signal(self, symbol, df, "force_close_eod")
             ELSE hold_signal(self, symbol, df)
    ELSE hold_signal(self, symbol, df)

\* the daily reset at the head of generate_signal
daily_reset_check(self, equity, today) ==
    IF self.last_reset_date # today
      THEN reset_daily_state(self, equity, today)
      ELSE self

\* generate_signal at wall-clock time current_time
generate_signal(self, df, symbol, equity, current_time) ==
    dispatch_signal(daily_reset_check(self, equity, current_time.date),
                    df, symbol, equity,
                    get_trading_phase(current_time.minute), current_time.date)

----------------------------------------------------------------------------
\* RiskLimits (its defaults) and RiskManager.  A percentage limit p is the
\* fraction P_NUM / PCT_DEN; a float result is a fraction [num, den], den > 0.

MAX_POSITION_SIZE_PCT_NUM == 5
LIMIT_MAX_POSITIONS == 10
MAX_PORTFOLIO_PCT_NUM == 80
MAX_DAILY_LOSS_PCT_NUM == 5
MAX_WEEKLY_LOSS_PCT_NUM == 10
MAX_DRAWDOWN_PCT_NUM == 15
PCT_DEN == 100

\* date.weekday() of Monday
MONDAY == 0

\* date.weekday(): the day numbers divisible by 7 are Mondays
weekday(d) == d % 7

Ratio(n, d) == [num |-> n, den |-> d]

\* x / y if y > 0 else 0
RatioOrZero(x, y) == IF y > 0 THEN Ratio(x, y) ELSE Ratio(0, 1)

\* RiskManager.__init__
RiskManagerInit ==
    [peak_equity |-> 0, daily_starting_equity |-> 0,
     weekly_starting_equity |-> 0, last_daily_reset |-> NoDate,
     last_weekly_reset |-> NoDate, kill_switch_active |-> FALSE]

\* an equity tracker that rolls the weekly baseline on every Monday call
update_equity_tracking_weekly_every_call(self, current_equity, today) ==
    LET daily == IF self.last_daily_reset # today
                   THEN [self EXCEPT !.daily_starting_equity = current_equity,
                                     !.last_daily_reset = today]
                   ELSE self
        weekly == IF daily.last_weekly_reset = NoDate \/ weekday(today) = MONDAY
                    THEN [daily EXCEPT !.weekly_starting_equity = current_equity,
                                       !.last_weekly_reset = today]
                    ELSE daily
    IN  IF current_equity > weekly.peak_equity
          THEN [weekly EXCEPT !.peak_equity = current_equity]
          ELSE weekly

\* an equity tracker whose peak follows the equity down
update_equity_tracking_peak_follows(self, current_equity, today) ==
    LET daily == IF self.last_daily_reset # today
                   THEN [self EXCEPT !.daily_starting_equity = current_equity,
                                     !.last_daily_reset = today]
                   ELSE self
        weekly == IF daily.last_weekly_reset = NoDate
                      \/ (weekday(today) = MONDAY
                            /\ daily.last_weekly_reset # today)
                    THEN [daily EXCEPT !.weekly_starting_equity = current_equity,
                                       !.last_weekly_reset = today]
                    ELSE daily
    IN  [weekly EXCEPT !.peak_equity = current_equity]

\* update_equity_tracking; today is date.today()
update_equity_tracking(self, current_equity, today) ==
    LET daily == IF self.last_daily_reset # today
                   THEN [self EXCEPT !.daily_starting_equity = current_equity,
                                     !.last_daily_reset = today]
                   ELSE self
        weekly == IF daily.last_weekly_reset = NoDate
                      \/ (weekday(today) = MONDAY
                            /\ daily.last_weekly_reset # today)
                    THEN [daily EXCEPT !.weekly_starting_equity = current_equity,
                                       !.last_weekly_reset = today]
                    ELSE daily
    IN  IF current_equity > weekly.peak_equity
          THEN [weekly EXCEPT !.peak_equity = current_equity]
          ELSE weekly

\* sum(p.market_value for p in positions)
total_position_value(held) ==
    SeqSum([i \in 1..Len(held) |-> held[i].market_value])

\* a cascade that tests the weekly limit before the daily one
blocked_reason_weekly_first(self, daily_pnl_pct, weekly_pnl_pct, drawdown, held, allocation_pct) ==
    IF self.kill_switch_active THEN "Kill switch is active"
    ELSE IF weekly_pnl_pct.num * PCT_DEN
              <= 0 - MAX_WEEKLY_LOSS_PCT_NUM * weekly_pnl_pct.den
      THEN "Weekly loss limit reached"
    ELSE IF daily_pnl_pct.num * PCT_DEN
              <= 0 - MAX_DAILY_LOSS_PCT_NUM * daily_pnl_pct.den
      THEN "Daily loss limit reached"
    ELSE IF drawdown.num * PCT_DEN >= MAX_DRAWDOWN_PCT_NUM * drawdown.den
      THEN "Max drawdown reached"
    ELSE IF Len(held) >= LIMIT_MAX_POSITIONS THEN "Max positions reached"
    ELSE IF allocation_pct.num * PCT_DEN
              >= MAX_PORTFOLIO_PCT_NUM * allocation_pct.den
      THEN "Max portfolio allocation reached"
    ELSE "None"

\* the blocking cascade of get_risk_status: the reason, "None" when free
blocked_reason(self, daily_pnl_pct, weekly_pnl_pct, drawdown, held, allocation_pct) ==
    IF self.kill_switch_active THEN "Kill switch is active"
    ELSE IF daily_pnl_pct.num * PCT_DEN
              <= 0 - MAX_DAILY_LOSS_PCT_NUM * daily_pnl_pct.den
      THEN "Daily loss limit reached"
    ELSE IF weekly_pnl_pct.num * PCT_DEN
              <= 0 - MAX_WEEKLY_LOSS_PCT_NUM * weekly_pnl_pct.den
      THEN "Weekly loss limit reached"
    ELSE IF drawdown.num * PCT_DEN >= MAX_DRAWDOWN_PCT_NUM * drawdown.den
      THEN "Max drawdown reached"
    ELSE IF Len(held) >= LIMIT_MAX_POSITIONS THEN "Max positions reached"
    ELSE IF allocation_pct.num * PCT_DEN
              >= MAX_PORTFOLIO_PCT_NUM * allocation_pct.den
      THEN "Max portfolio allocation reached"
    ELSE "None"

\* a status that reports the drawdown breach without latching the kill switch
get_risk_status_no_latch(self, account, held, today) ==
    LET tracked == update_equity_tracking(self, account.equity, today)
        pnl_day == account.equity - tracked.daily_starting_equity
        daily_pnl_pct == RatioOrZero(pnl_day, tracked.daily_starting_equity)
        pnl_week == account.equity - tracked.weekly_starting_equity
        weekly_pnl_pct == RatioOrZero(pnl_week, tracked.weekly_starting_equity)
        drawdown == RatioOrZero(tracked.peak_equity - account.equity,
                                tracked.peak_equity)
        allocation_pct == RatioOrZero(total_position_value(held),
                                      account.portfolio_value)
        reason == blocked_reason(tracked, daily_pnl_pct, weekly_pnl_pct,
                                 drawdown, held, allocation_pct)
    IN  [self |-> tracked,
         status |-> [can_trade |-> reason = "None",
                     daily_pnl |-> pnl_day,
                     daily_pnl_pct |-> daily_pnl_pct,
                     weekly_pnl |-> pnl_week,
                     weekly_pnl_pct |-> weekly_pnl_pct,
                     current_drawdown_pct |-> drawdown,
                     positions_count |-> Len(held),
                     portfolio_allocation_pct |-> allocation_pct,
                     blocked_reason |-> reason]]

\* get_risk_status: [self, status]; held is the positions argument
get_risk_status(self, account, held, today) ==
    LET tracked == update_equity_tracking(self, account.equity, today)
        pnl_day == account.equity - tracked.daily_starting_equity
        daily_pnl_pct == RatioOrZero(pnl_day, tracked.daily_starting_equity)
        pnl_week == account.equity - tracked.weekly_starting_equity
        weekly_pnl_pct == RatioOrZero(pnl_week, tracked.weekly_starting_equity)
        drawdown == RatioOrZero(tracked.peak_equity - account.equity,
                                tracked.peak_equity)
        allocation_pct == RatioOrZero(total_position_value(held),
                                      account.portfolio_value)
        reason == blocked_reason(tracked, daily_pnl_pct, weekly_pnl_pct,
                                 drawdown, held, allocation_pct)
    IN  [self |-> [tracked EXCEPT !.kill_switch_active =
                      tracked.kill_switch_active
                        \/ reason = "Max drawdown reached"],
         status |-> [can_trade |-> reason = "None",
                     daily_pnl |-> pnl_day,
                     daily_pnl_pct |-> daily_pnl_pct,
                     weekly_pnl |-> pnl_week,
                     weekly_pnl_pct |-> weekly_pnl_pct,
                     current_drawdown_pct |-> drawdown,
                     positions_count |-> Len(held),
                     portfolio_allocation_pct |-> allocation_pct,
                     blocked_reason |-> reason]]

\* the result tuple (is_valid, rejection_reason, position_size_dollars)
Validation(is_valid, reason, size) ==
    [is_valid |-> is_valid, reason |-> reason, size |-> size]

\* a size that leaves the buying power out
position_size_ignoring_buying_power(account, strength) ==
    Ratio(account.portfolio_value * MAX_POSITION_SIZE_PCT_NUM * strength.num,
          PCT_DEN * strength.den)

\* position_size = min(portfolio_value * max_position_size_pct,
\*                     buying_power) * signal.strength
position_size(account, strength) ==
    LET capped == IF account.portfolio_value * MAX_POSITION_SIZE_PCT_NUM
                       <= account.buying_power * PCT_DEN
                    THEN account.portfolio_value * MAX_POSITION_SIZE_PCT_NUM
                    ELSE account.buying_power * PCT_DEN
    IN  Ratio(capped * strength.num, PCT_DEN * strength.den)

\* a validation that lets SELL and HOLD through before it looks at the
\* risk status
validate_signal_exits_first(self, sig, account, held, today) ==
    LET r == get_risk_status(self, account, held, today)
        size == position_size(account, sig.strength)
        result ==
            IF sig.signal_type # "BUY"
              THEN Validation(TRUE, "None", Ratio(0, 1))
            ELSE IF ~r.status.can_trade
              THEN Validation(FALSE, r.status.blocked_reason, Ratio(0, 1))
            ELSE IF \E i \in 1..Len(held) : held[i].symbol = sig.symbol
              THEN Validation(FALSE, "Already have position", Ratio(0, 1))
            ELSE IF size.num < size.den
              THEN Validation(FALSE, "Position size too small", Ratio(0, 1))
            ELSE Validation(TRUE, "None", size)
    IN  [self |-> r.self, result |-> result]

\* validate_signal: [self, result]; sig is the signal argument
validate_signal(self, sig, account, held, today) ==
    LET r == get_risk_status(self, account, held, today)
        size == position_size(account, sig.strength)
        result ==
            IF ~r.status.can_trade
              THEN Validation(FALSE, r.status.blocked_reason, Ratio(0, 1))
            ELSE IF sig.signal_type # "BUY"
              THEN Validation(TRUE, "None", Ratio(0, 1))
            ELSE IF \E i \in 1..Len(held) : held[i].symbol = sig.symbol
              THEN Validation(FALSE, "Already have position", Ratio(0, 1))
            ELSE IF size.num < size.den
              THEN Validation(FALSE, "Position size too small", Ratio(0, 1))
            ELSE Validation(TRUE, "None", size)
    IN  [self |-> r.self, result |-> result]

\* a reset that also forgets the peak
reset_kill_switch_forgetting_peak(self) ==
    [self EXCEPT !.kill_switch_active = FALSE, !.peak_equity = 0]

\* reset_kill_switch
reset_kill_switch(self) == [self EXCEPT !.kill_switch_active = FALSE]

\* activate_kill_switch
activate_kill_switch(self) == [self EXCEPT !.kill_switch_active = TRUE]

----------------------------------------------------------------------------
\* The state machine

NoSignal == [none |-> TRUE]
NoCall == [none |-> TRUE]
NoPosition == [none |-> TRUE]
NoRiskCall == [op |-> "None"]
NoRun == [none |-> TRUE]
NoBot == [none |-> TRUE]

DictGet(d, k, default) == IF k \in DOMAIN d THEN d[k] ELSE default

Init ==
    /\ opening_ranges = EmptyDict
    /\ positions = EmptyDict
    /\ daily_pnl = 0
    /\ daily_starting_equity = 0
    /\ last_reset_date = NoDate
    /\ is_daily_stopped = FALSE
    /\ max_positions \in 1..MaxPositions
    /\ check_false_breakout \in BOOLEAN
    /\ now \in [date : {1}, minute : PhaseTimes]
    /\ loop_phase = "None"
    /\ signal = NoSignal
    /\ call = NoCall
    /\ realized = 0
    /\ trades = 0
    /\ risk_manager = RiskManagerInit
    /\ risk_call = NoRiskCall
    /\ last_observation = NoDate
    /\ backtest = NoRun
    /\ bot = NoBot

SetSelf(self) ==
    /\ opening_ranges' = self.opening_ranges
    /\ positions' = self.positions
    /\ daily_pnl' = self.daily_pnl
    /\ daily_starting_equity' = self.daily_starting_equity
    /\ last_reset_date' = self.last_reset_date
    /\ is_daily_stopped' = self.is_daily_stopped

\* the clock moves on within the day, between two evaluations
Tick(m) ==
    /\ call = NoCall
    /\ m > now.minute
    /\ now' = [now EXCEPT !.minute = m]
    /\ UNCHANGED <<strategy, config, loop_phase, signal, call, realized, trades, risk, backtest, bot>>

\* midnight passes
NextDay(m) ==
    /\ call = NoCall
    /\ now.date < MaxDay
    /\ now' = [date |-> now.date + 1, minute |-> m]
    /\ UNCHANGED <<strategy, config, loop_phase, signal, call, realized, trades, risk, backtest, bot>>

\* run_trading_loop resets the strategy once, before its first iteration
ResetDailyState(equity) ==
    /\ call = NoCall
    /\ last_reset_date = NoDate
    /\ SetSelf(reset_daily_state(Self, equity, now.date))
    /\ realized' = 0
    /\ UNCHANGED <<config, now, loop_phase, signal, call, trades, risk, backtest, bot>>

\* one call strategy.generate_signal(df, symbol, equity) at the current time.
\* before is the object as the call sees it once the daily reset is done;
\* call keeps the arguments, what the call found (before) and what the
\* daily reset, if any, wiped (prev).
GenerateSignal(symbol, df, equity) ==
    /\ call = NoCall
    /\ \E before \in {daily_reset_check(Self, equity, now.date)} :
         \E r \in {generate_signal(Self, df, symbol, equity, now)} :
           /\ r.sig.signal_type = "BUY" => trades < MaxTrades
           /\ SetSelf(r.self)
           /\ signal' = r.sig
           /\ call' = [symbol |-> symbol, equity |-> equity,
                       empty |-> df_empty(df),
                       volume |-> IF df_empty(df) THEN 0 ELSE df[Len(df)].volume,
                       or_bars |-> Len(or_window_bars(df, now.date)),
                       phase |-> get_trading_phase(now.minute),
                       reset |-> last_reset_date # now.date,
                       prev |-> [n_positions |-> Cardinality(DOMAIN positions),
                                 n_ranges |-> Cardinality(DOMAIN opening_ranges),
                                 daily_pnl |-> daily_pnl,
                                 is_daily_stopped |-> is_daily_stopped],
                       stopped_before |-> before.is_daily_stopped,
                       position_before |->
                           DictGet(before.positions, symbol, NoPosition),
                       n_before |-> Cardinality(DOMAIN before.positions),
                       pnl_before |-> before.daily_pnl,
                       or_before |->
                           DictGet(before.opening_ranges, symbol, NoOR)]
           /\ realized' =
                (IF last_reset_date # now.date THEN 0 ELSE realized)
                + (IF r.sig.signal_type = "SELL" /\ symbol \in DOMAIN before.positions
                     THEN (r.sig.price - before.positions[symbol].entry_price)
                            * before.positions[symbol].shares
                     ELSE 0)
           /\ trades' = IF r.sig.signal_type = "BUY" THEN trades + 1 ELSE trades
           /\ UNCHANGED <<config, now, loop_phase, risk, backtest, bot>>

\* the trading loop takes the returned signal (and acts on it at the broker,
\* which the strategy never sees) before it evaluates the next symbol
ExecuteSignal ==
    /\ call # NoCall
    /\ call' = NoCall
    /\ signal' = NoSignal
    /\ UNCHANGED <<strategy, config, now, loop_phase, realized, trades, risk, backtest, bot>>

Next ==
    \/ \E m \in PhaseTimes : Tick(m)
    \/ \E m \in PhaseTimes : NextDay(m)
    \/ \E equity \in Equities : ResetDailyState(equity)
    \/ /\ call = NoCall
       /\ \E symbol \in Symbols, in \in Inputs(now) :
            \* a day starts on one of Equities; the account moves afterwards
            /\ in[2] \in Equities \/ last_reset_date = now.date
            /\ GenerateSignal(symbol, in[1], in[2])
    \/ ExecuteSignal

Spec == Init /\ [][Next]_vars


----------------------------------------------------------------------------
\* get_trading_phase on its own: the clock starts at any minute of the day,
\* the trading loop asks for the phase, a minute passes, and so on

MinutesPerDay == 24 * 60

InitPhase ==
    /\ opening_ranges = EmptyDict
    /\ positions = EmptyDict
    /\ daily_pnl = 0
    /\ daily_starting_equity = 0
    /\ last_reset_date = NoDate
    /\ is_daily_stopped = FALSE
    /\ max_positions = 1
    /\ check_false_breakout = TRUE
    /\ now \in [date : {1}, minute : 0..(MinutesPerDay - 1)]
    /\ loop_phase = "None"
    /\ signal = NoSignal
    /\ call = NoCall
    /\ realized = 0
    /\ trades = 0
    /\ risk_manager = RiskManagerInit
    /\ risk_call = NoRiskCall
    /\ last_observation = NoDate
    /\ backtest = NoRun
    /\ bot = NoBot

\* a minute passes (midnight wraps around)
AdvanceClock ==
    /\ loop_phase # "None"
    /\ now' = [now EXCEPT !.minute = (now.minute + 1) % MinutesPerDay]
    /\ loop_phase' = "None"
    /\ UNCHANGED <<strategy, config, signal, call, realized, trades, risk, backtest, bot>>

\* phase = self.strategy.get_trading_phase(now)
GetTradingPhase ==
    /\ loop_phase = "None"
    /\ loop_phase' = get_trading_phase(now.minute)
    /\ UNCHANGED <<strategy, config, now, signal, call, realized, trades, risk, backtest, bot>>

NextPhase ==
    \/ AdvanceClock
    \/ GetTradingPhase

SpecPhase == InitPhase /\ [][NextPhase]_vars

----------------------------------------------------------------------------
\* Properties

Called == call # NoCall

HadPosition == call.position_before # NoPosition

\* the evaluated bar would open a position if nothing else stood in the way:
\* a valid cached range, a close above its high on volume, a funded account
BreakoutOffered ==
    /\ ~call.empty
    /\ call.or_before # NoOR
    /\ call.or_before.is_valid
    /\ signal.price > call.or_before.high
    /\ call.volume * VOLUME_MULT_DEN * call.or_before.avg_volume.den
         > VOLUME_MULT_NUM * call.or_before.avg_volume.num
    /\ call.equity = Equity

SignalIs(type, reason) ==
    signal.signal_type = type /\ signal.reason = reason

\* the call added no position, and left the symbol's own as it found it
NoPositionCreated ==
    /\ Cardinality(DOMAIN positions) <= call.n_before
    /\ call.symbol \in DOMAIN positions =>
         positions[call.symbol] = call.position_before

\* C1: in entry_window with the daily stop unset, an open position of the
\* evaluated symbol gets its exit check whatever max_positions is: a close at
\* or below the stop gives SELL(stop_loss), a close at or above the target
\* gives SELL(take_profit).
C1_ExitCheckBeforeCap ==
    (Called /\ call.phase = "entry_window" /\ ~is_daily_stopped
       /\ HadPosition /\ ~call.empty)
    => /\ signal.price <= call.position_before.stop_loss
            => SignalIs("SELL", "stop_loss")
       /\ signal.price >= call.position_before.take_profit
            => SignalIs("SELL", "take_profit")

\* C2: every call made while the daily-stop flag is set (the one that sets it
\* included) returns SELL(daily_risk_stop) and removes the position when the
\* symbol has one, and HOLD when it has none.
C2_StoppedCallsSell ==
    (Called /\ is_daily_stopped)
    => IF HadPosition
         THEN SignalIs("SELL", "daily_risk_stop")
              /\ call.symbol \notin DOMAIN positions
         ELSE signal.signal_type = "HOLD"

\* C3: the daily-stop flag is a latch.  A call sets it exactly when it starts,
\* flag unset, with daily_pnl / daily_starting_equity <= -daily_max_loss_pct;
\* a call that starts with the flag set ends with it set; and a call that
\* ends with the flag set returns no BUY and creates no position.
C3_DailyStopLatch ==
    Called =>
      /\ ~call.stopped_before =>
           (is_daily_stopped <=>
              /\ daily_starting_equity > 0
              /\ call.pnl_before * DAILY_MAX_LOSS_DEN
                   <= 0 - DAILY_MAX_LOSS_NUM * daily_starting_equity)
      /\ call.stopped_before => is_daily_stopped
      /\ (~call.reset /\ call.prev.is_daily_stopped) => call.stopped_before
      /\ is_daily_stopped =>
           signal.signal_type # "BUY" /\ NoPositionCreated

\* a breakout is offered in the entry window after the flag was set
C3_Witness ==
    /\ Called /\ call.stopped_before /\ call.phase = "entry_window"
    /\ ~HadPosition /\ call.n_before < max_positions /\ BreakoutOffered
    /\ signal.signal_type = "HOLD"

\* the flag is set at exactly -2%
C3_WitnessBoundary ==
    /\ Called /\ ~call.stopped_before /\ is_daily_stopped
    /\ call.pnl_before * DAILY_MAX_LOSS_DEN
         = 0 - DAILY_MAX_LOSS_NUM * daily_starting_equity

\* C4: a symbol evaluated during force_close while it holds a position gets
\* SELL and holds none afterwards, whatever happened earlier in the day.
C4_ForceCloseSells ==
    (Called /\ call.phase = "force_close" /\ HadPosition)
    => signal.signal_type = "SELL" /\ call.symbol \notin DOMAIN positions

\* C5: never more than max_positions open positions; a BUY is returned only
\* for a symbol without a position and below the cap, and records exactly
\* one new position, the symbol's.
C5_PositionCap ==
    /\ Cardinality(DOMAIN positions) <= max_positions
    /\ (Called /\ signal.signal_type = "BUY") =>
         /\ ~HadPosition
         /\ call.n_before < max_positions
         /\ Cardinality(DOMAIN positions) = call.n_before + 1
         /\ call.symbol \in DOMAIN positions

\* a breakout is offered for a free symbol while the cap is reached
C5_Witness ==
    /\ Called /\ call.phase = "entry_window" /\ ~is_daily_stopped
    /\ ~HadPosition /\ call.n_before = max_positions /\ BreakoutOffered
    /\ signal.signal_type = "HOLD"

\* C6: outside entry_window a call returns no BUY and adds no position.
C6_EntriesOnlyInEntryWindow ==
    (Called /\ call.phase # "entry_window")
    => signal.signal_type # "BUY" /\ NoPositionCreated

\* a breakout is offered in manage_only, nothing standing in the way
C6_Witness ==
    /\ Called /\ call.phase = "manage_only" /\ ~is_daily_stopped
    /\ ~HadPosition /\ call.n_before < max_positions /\ BreakoutOffered
    /\ signal.signal_type = "HOLD"

\* C7: get_trading_phase maps every minute of the day to the phase of the one
\* interval that holds it (pre_market before 09:30, noise to 09:35, calc_or
\* to 09:45, entry_window to 11:00, manage_only to 15:55, force_close to
\* 16:00, after_hours from then on), and asking leaves the strategy as it was.
PhaseIntervals ==
    { <<"pre_market", 0, 9 * 60 + 30>>,
      <<"noise", 9 * 60 + 30, 9 * 60 + 35>>,
      <<"calc_or", 9 * 60 + 35, 9 * 60 + 45>>,
      <<"entry_window", 9 * 60 + 45, 11 * 60>>,
      <<"manage_only", 11 * 60, 15 * 60 + 55>>,
      <<"force_close", 15 * 60 + 55, 16 * 60>>,
      <<"after_hours", 16 * 60, 24 * 60>> }

C7_PhaseTable ==
    /\ Cardinality({i \in PhaseIntervals :
                      i[2] <= now.minute /\ now.minute < i[3]}) = 1
    /\ loop_phase # "None" =>
         \E i \in PhaseIntervals :
            /\ i[2] <= now.minute /\ now.minute < i[3]
            /\ loop_phase = i[1]
    /\ Self = [opening_ranges |-> EmptyDict, positions |-> EmptyDict,
               daily_pnl |-> 0, daily_starting_equity |-> 0,
               last_reset_date |-> NoDate, is_daily_stopped |-> FALSE]

\* the last minute of force_close has been asked for
C7_Witness == loop_phase = "force_close" /\ now.minute = 15 * 60 + 59

\* C8: the first call on a new calendar day starts from a clean slate: what
\* it sees after the reset is an empty OR cache, no position, no realized
\* pnl, the stop flag cleared and the day's starting equity set to the equity
\* passed in; so it returns HOLD, and nothing but the range it may compute
\* itself is kept when it returns.
C8_DailyReset ==
    (Called /\ call.reset)
    => /\ last_reset_date = now.date
       /\ daily_starting_equity = call.equity
       /\ call.n_before = 0 /\ ~HadPosition
       /\ call.or_before = NoOR
       /\ call.pnl_before = 0
       /\ ~call.stopped_before
       /\ signal.signal_type = "HOLD"
       /\ positions = EmptyDict
       /\ daily_pnl = 0
       /\ ~is_daily_stopped
       /\ DOMAIN opening_ranges \subseteq {call.symbol}
       /\ (opening_ranges # EmptyDict => call.phase = "calc_or")

\* day two starts on a position, ranges, a loss and the stop flag of day one
C8_Witness ==
    /\ Called /\ call.reset /\ now.date > 1
    /\ call.prev.n_positions > 0 /\ call.prev.n_ranges > 0
    /\ call.prev.daily_pnl < 0 /\ call.prev.is_daily_stopped
    /\ call.phase = "entry_window" /\ call.equity = Equity

\* C9: daily_pnl is the sum of the realized pnl of the positions closed since
\* the last reset.  A SELL is returned only for a symbol that holds a
\* position, adds (exit price - entry price) * shares and removes the
\* position; BUY and HOLD leave daily_pnl as it was.
C9_PnlAccounting ==
    /\ daily_pnl = realized
    /\ Called =>
         IF signal.signal_type = "SELL"
           THEN /\ HadPosition
                /\ daily_pnl = call.pnl_before
                     + (signal.price - call.position_before.entry_price)
                         * call.position_before.shares
                /\ call.symbol \notin DOMAIN positions
           ELSE daily_pnl = call.pnl_before

\* a second position of the day is closed, at a loss
C9_Witness ==
    /\ Called /\ signal.signal_type = "SELL"
    /\ call.pnl_before # 0 /\ daily_pnl < call.pnl_before

\* C10: the exit check decides in a fixed order: at or below the stop,
\* SELL(stop_loss); else at or above the target, SELL(take_profit); else,
\* with false-breakout detection on and the close below the OR high,
\* SELL(false_breakout); else HOLD.
ExitCheckRan ==
    /\ Called /\ ~is_daily_stopped /\ HadPosition /\ ~call.empty
    /\ \/ call.phase = "manage_only"
       \/ call.phase = "entry_window" /\ call.n_before < max_positions

C10_ExitCheckOrder ==
    ExitCheckRan =>
      LET p == signal.price
          position == call.position_before
      IN  IF p <= position.stop_loss THEN SignalIs("SELL", "stop_loss")
          ELSE IF p >= position.take_profit THEN SignalIs("SELL", "take_profit")
          ELSE IF check_false_breakout /\ p < position.or_high
            THEN SignalIs("SELL", "false_breakout")
          ELSE signal.signal_type = "HOLD"

\* a close between the stop and the OR high, detection on
C10_Witness == ExitCheckRan /\ SignalIs("SELL", "false_breakout")

\* the same close, detection off
C10_WitnessDisabled ==
    /\ ExitCheckRan /\ ~check_false_breakout
    /\ signal.price > call.position_before.stop_loss
    /\ signal.price < call.position_before.or_high
    /\ signal.signal_type = "HOLD"

\* the evaluated symbol may take an entry: entry window, daily stop unset,
\* no position of its own, open positions below the cap
EntryOpen ==
    /\ Called /\ call.phase = "entry_window" /\ ~is_daily_stopped
    /\ ~HadPosition /\ call.n_before < max_positions

CloseAboveHigh == signal.price > call.or_before.high

VolumeAboveAverage ==
    call.volume * VOLUME_MULT_DEN * call.or_before.avg_volume.den
      > VOLUME_MULT_NUM * call.or_before.avg_volume.num

\* a valid range is cached and the last bar breaks out of it on volume
EntryConditions ==
    /\ call.or_before # NoOR
    /\ call.or_before.is_valid
    /\ CloseAboveHigh
    /\ VolumeAboveAverage

\* C11: where an entry may be taken, BUY is returned only with a valid cached
\* opening range, close > OR.high and volume > volume_multiplier * avg_volume,
\* both strict; with no valid range, or either inequality failing (equality
\* included), the result is HOLD.
C11_BreakoutEntry ==
    EntryOpen =>
      /\ signal.signal_type = "BUY" => EntryConditions
      /\ ~EntryConditions => signal.signal_type = "HOLD"

\* a close above the OR high on volume of exactly 1.5 x average is held
C11_Witness ==
    /\ EntryOpen /\ call.or_before # NoOR /\ call.or_before.is_valid
    /\ CloseAboveHigh
    /\ call.volume * VOLUME_MULT_DEN * call.or_before.avg_volume.den
         = VOLUME_MULT_NUM * call.or_before.avg_volume.num
    /\ call.equity = Equity
    /\ signal.signal_type = "HOLD"

\* a close exactly at the OR high, on volume, is held
C11_WitnessAtHigh ==
    /\ EntryOpen /\ call.or_before # NoOR /\ call.or_before.is_valid
    /\ signal.price = call.or_before.high /\ VolumeAboveAverage
    /\ call.equity = Equity
    /\ signal.signal_type = "HOLD"

\* floor(equity * risk_pct / risk_per_share), for risk_per_share > 0
FloorShares(equity, risk_per_share) ==
    (equity * RISK_PCT_NUM) \div (RISK_PCT_DEN * risk_per_share)

C12_WitnessNoShares ==
    /\ EntryOpen /\ EntryConditions /\ call.or_before.range > 0
    /\ FloorShares(call.equity, call.or_before.range) = 0
    /\ signal.signal_type = "HOLD"

\* the symbol's cache entry is as the call found it
CacheUntouched ==
    DictGet(opening_ranges, call.symbol, NoOR) = call.or_before

\* C14: with fewer than 5 bars inside the OR window the call in calc_or
\* returns HOLD and writes nothing to the cache; and in entry_window a symbol
\* with no cached opening range gets HOLD, call after call, the cache
\* staying empty for it.
C14_TooFewBars ==
    Called =>
      /\ (call.phase = "calc_or" /\ call.or_bars < MIN_OR_BARS) =>
           signal.signal_type = "HOLD" /\ CacheUntouched
      /\ (call.phase = "entry_window" /\ call.or_before = NoOR) =>
           signal.signal_type = "HOLD" /\ CacheUntouched

\* four bars of today lie inside the window and nothing is cached
C14_Witness ==
    /\ Called /\ call.phase = "calc_or" /\ call.or_bars = MIN_OR_BARS - 1
    /\ call.or_before = NoOR /\ call.symbol \notin DOMAIN opening_ranges
    /\ signal.signal_type = "HOLD"

\* a bar that would break out of the band, for a symbol without a range
C14_WitnessEntry ==
    /\ EntryOpen /\ call.or_before = NoOR
    /\ call.symbol \notin DOMAIN opening_ranges
    /\ call.equity = Equity /\ signal.price = 104 /\ call.volume = 400
    /\ signal.signal_type = "HOLD"

----------------------------------------------------------------------------
\* C31: a call in calc_or returns HOLD; when the symbol has a cached range
\* (valid or not) the call leaves it as it is, whatever bars it is given;
\* when nothing is cached the call tries the computation, which caches a
\* range if at least five bars lie in the window and caches nothing if not,
\* so that a later calc_or call tries again.
C31_CalcOrOnce ==
    (Called /\ call.phase = "calc_or") =>
      /\ signal.signal_type = "HOLD"
      /\ call.or_before # NoOR => CacheUntouched
      /\ (call.or_before = NoOR /\ call.or_bars >= MIN_OR_BARS)
           => /\ call.symbol \in DOMAIN opening_ranges
              /\ opening_ranges[call.symbol].date = now.date
      /\ (call.or_before = NoOR /\ call.or_bars < MIN_OR_BARS)
           => call.symbol \notin DOMAIN opening_ranges

\* the band 103/100 is cached and the call brings five bars of the flat
\* band 101/101
C31_Witness ==
    /\ Called /\ call.phase = "calc_or"
    /\ call.or_before # NoOR /\ call.or_before.high = 103
    /\ call.or_bars >= MIN_OR_BARS /\ signal.price = 101
    /\ opening_ranges[call.symbol].high = 103

\* the invalid flat band is cached and the call brings the band 103/100
C31_WitnessInvalid ==
    /\ Called /\ call.phase = "calc_or"
    /\ call.or_before # NoOR /\ ~call.or_before.is_valid
    /\ call.or_bars >= MIN_OR_BARS /\ signal.price = 100
    /\ ~opening_ranges[call.symbol].is_valid

\* a call that is not the first of the day finds nothing cached and caches
C31_WitnessRetry ==
    /\ Called /\ call.phase = "calc_or" /\ ~call.reset
    /\ call.or_before = NoOR /\ DOMAIN opening_ranges = {call.symbol}

----------------------------------------------------------------------------
\* what one generate_signal call leaves alone

\* the step is a call of generate_signal
CallStep == call = NoCall /\ call' # NoCall

\* the symbols the call was not made for keep their Position and their
\* cached opening range
OthersUntouched ==
    \A s \in Symbols \ {call'.symbol} :
        /\ DictGet(positions', s, NoPosition) = DictGet(positions, s, NoPosition)
        /\ DictGet(opening_ranges', s, NoOR) = DictGet(opening_ranges, s, NoOR)

\* the frame of a call that returns HOLD
HoldFrame ==
    /\ positions' = positions
    /\ daily_pnl' = daily_pnl
    /\ opening_ranges' # opening_ranges =>
          /\ call'.phase = "calc_or"
          /\ call'.symbol \notin DOMAIN opening_ranges
          /\ call'.symbol \in DOMAIN opening_ranges'
          /\ opening_ranges' =
                DictSet(opening_ranges, call'.symbol, opening_ranges'[call'.symbol])
    /\ is_daily_stopped => is_daily_stopped'

\* C40 as stated: a call that returns HOLD and does not trigger the daily
\* reset leaves positions and daily_pnl unchanged, changes the OR cache only
\* in the calc_or phase, by adding the evaluated symbol's range, and the
\* daily-stop flag only from false to true; and a call for one symbol never
\* adds, removes or alters the Position or cached opening range of another
\* symbol.  The first call of a new day does: its daily reset empties both
\* maps.
C40_Frame ==
    [][CallStep =>
          /\ (~call'.reset /\ signal'.signal_type = "HOLD") => HoldFrame
          /\ OthersUntouched]_vars

\* C40, amended: both parts hold of the calls that do not trigger the daily
\* reset, whatever the signal returned for the second.
C40_FrameWithoutReset ==
    [][(CallStep /\ ~call'.reset) =>
          /\ signal'.signal_type = "HOLD" => HoldFrame
          /\ OthersUntouched]_vars

\* a HOLD in calc_or has cached the symbol's range next to the other symbol's
C40_Witness ==
    /\ call # NoCall
    /\ ~call.reset
    /\ signal.signal_type = "HOLD"
    /\ call.phase = "calc_or"
    /\ call.or_before = NoOR
    /\ call.symbol \in DOMAIN opening_ranges
    /\ DOMAIN opening_ranges = Symbols

\* a HOLD for a symbol whose position is held and stays
C40_WitnessHeld ==
    /\ call # NoCall
    /\ ~call.reset
    /\ signal.signal_type = "HOLD"
    /\ call.position_before # NoPosition
    /\ call.symbol \in DOMAIN positions

\* a HOLD that set the daily-stop flag
C40_WitnessStopped ==
    /\ call # NoCall
    /\ ~call.reset
    /\ signal.signal_type = "HOLD"
    /\ ~call.prev.is_daily_stopped
    /\ is_daily_stopped

\* a BUY or a SELL for one symbol while the other one holds a position
C40_WitnessOther ==
    /\ call # NoCall
    /\ ~call.reset
    /\ signal.signal_type \in {"BUY", "SELL"}
    /\ call.n_before >= 1
    /\ \E s \in Symbols \ {call.symbol} : s \in DOMAIN positions

\* calculate_opening_range on its own: in calc_or each symbol is evaluated
\* on window bars spanning any band of WideBands

\* <<high, low, volume>>: lows below, at and above zero; ranges below, at
\* and above 0.2% of the low
WideBands ==
    { <<b[1], b[2], 100>> :
        b \in { x \in {0, 1, 501, 1001, 1002} \X {0 - 1, 0, 500, 1000} :
                  x[2] <= x[1] } }

InitOR ==
    /\ opening_ranges = EmptyDict
    /\ positions = EmptyDict
    /\ daily_pnl = 0
    /\ daily_starting_equity = 0
    /\ last_reset_date = NoDate
    /\ is_daily_stopped = FALSE
    /\ max_positions = 1
    /\ check_false_breakout = TRUE
    /\ now = [date |-> 1, minute |-> OR_CALC_START]
    /\ loop_phase = "None"
    /\ signal = NoSignal
    /\ call = NoCall
    /\ realized = 0
    /\ trades = 0
    /\ risk_manager = RiskManagerInit
    /\ risk_call = NoRiskCall
    /\ last_observation = NoDate
    /\ backtest = NoRun
    /\ bot = NoBot

NextOR ==
    \/ \E symbol \in Symbols, band \in WideBands :
         GenerateSignal(symbol, WindowBars(now.date, MIN_OR_BARS, band), Equity)
    \/ ExecuteSignal

SpecOR == InitOR /\ [][NextOR]_vars

\* C13: every opening range calculate_opening_range produces has is_valid
\* true exactly when low > 0 and range / low >= min_or_range_pct (equality
\* included), and false when low <= 0 or range / low < min_or_range_pct.
C13_IsValid ==
    \A s \in DOMAIN opening_ranges :
       opening_ranges[s].is_valid
         <=> /\ opening_ranges[s].low > 0
             /\ opening_ranges[s].range * MIN_OR_RANGE_DEN
                  >= MIN_OR_RANGE_NUM * opening_ranges[s].low

----------------------------------------------------------------------------
\* RiskManager on its own: days pass, and its callers ask for the risk
\* status, validate signals and work the kill switch

\* the first days of the model: a Sunday and a Monday
RiskStartDays == {6, 7}

\* account equity: nothing, a start of 100, losses of 5%, 10% and 15% on it,
\* and a gain
RiskEquities == {0, 85, 90, 95, 100, 120}

Account(e, pv, bp) == [equity |-> e, portfolio_value |-> pv, buying_power |-> bp]

\* an account wholly in cash at each equity, and at equity 100: a portfolio
\* whose 5% is exactly 1 dollar, one whose 5% is less, and buying power of 2
RiskAccounts ==
    {Account(e, e, e) : e \in RiskEquities}
      \cup {Account(100, 20, 100), Account(100, 19, 100), Account(100, 100, 2)}

\* a broker Position, as far as the risk manager reads it
Holding(symbol, market_value) == [symbol |-> symbol, market_value |-> market_value]

Universe ==
    <<"SPY", "QQQ", "AAPL", "MSFT", "NVDA", "AMZN", "META", "GOOGL", "TSLA", "AMD">>

\* the positions argument: none; one in SPY; one in QQQ worth 80 (80% of a
\* portfolio of 100); and as many as the position limit, worth 80 together
Holdings ==
    { << >>,
      <<Holding("SPY", 10)>>,
      <<Holding("QQQ", 80)>>,
      [i \in 1..LIMIT_MAX_POSITIONS |-> Holding(Universe[i], 8)] }

\* the signal argument, as far as the risk manager reads it
RiskSignal(symbol, type, strength) ==
    [symbol |-> symbol, signal_type |-> type, strength |-> strength]

RiskSignals ==
    { RiskSignal("SPY", "BUY", Ratio(1, 1)),
      RiskSignal("SPY", "BUY", Ratio(1, 2)),
      RiskSignal("SPY", "SELL", Ratio(1, 1)),
      RiskSignal("SPY", "HOLD", Ratio(0, 1)) }

InitRisk ==
    /\ opening_ranges = EmptyDict
    /\ positions = EmptyDict
    /\ daily_pnl = 0
    /\ daily_starting_equity = 0
    /\ last_reset_date = NoDate
    /\ is_daily_stopped = FALSE
    /\ max_positions = 1
    /\ check_false_breakout = TRUE
    /\ now \in [date : RiskStartDays, minute : {0}]
    /\ loop_phase = "None"
    /\ signal = NoSignal
    /\ call = NoCall
    /\ realized = 0
    /\ trades = 0
    /\ risk_manager = RiskManagerInit
    /\ risk_call = NoRiskCall
    /\ last_observation = NoDate
    /\ backtest = NoRun
    /\ bot = NoBot

\* what a call was given and what it found
RiskCall(op, account, held, sig, status, result) ==
    [op |-> op, account |-> account, n_held |-> Len(held),
     held_value |-> total_position_value(held),
     holds_symbol |-> \E i \in 1..Len(held) : held[i].symbol = sig.symbol,
     sig |-> sig, before |-> risk_manager, today |-> now.date,
     last_observation |-> last_observation,
     status |-> status, result |-> result]

\* midnight passes
NextRiskDay ==
    /\ risk_call = NoRiskCall
    /\ now.date < MaxRiskDay
    /\ now' = [now EXCEPT !.date = now.date + 1]
    /\ UNCHANGED <<strategy, config, loop_phase, signal, call, realized, trades,
                   risk, backtest, bot>>

\* risk_manager.get_risk_status(account, positions)
GetRiskStatus(account, held) ==
    /\ risk_call = NoRiskCall
    /\ \E r \in {get_risk_status(risk_manager, account, held, now.date)} :
         /\ risk_manager' = r.self
         /\ risk_call' = RiskCall("get_risk_status", account, held,
                                  RiskSignal("None", "None", Ratio(0, 1)),
                                  r.status, Validation(FALSE, "None", Ratio(0, 1)))
    /\ last_observation' = now.date
    /\ UNCHANGED <<strategy, config, now, loop_phase, signal, call, realized,
                   trades, backtest, bot>>

\* risk_manager.validate_signal(signal, account, positions, current_price)
ValidateSignal(sig, account, held) ==
    /\ risk_call = NoRiskCall
    /\ \E r \in {validate_signal(risk_manager, sig, account, held, now.date)} :
         /\ risk_manager' = r.self
         /\ risk_call' = RiskCall("validate_signal", account, held, sig,
                                  get_risk_status(risk_manager, account, held,
                                                  now.date).status,
                                  r.result)
    /\ last_observation' = now.date
    /\ UNCHANGED <<strategy, config, now, loop_phase, signal, call, realized,
                   trades, backtest, bot>>

\* risk_manager.reset_kill_switch()
ResetKillSwitch ==
    /\ risk_call = NoRiskCall
    /\ risk_manager' = reset_kill_switch(risk_manager)
    /\ risk_call' = [op |-> "reset_kill_switch", before |-> risk_manager]
    /\ UNCHANGED <<strategy, config, now, loop_phase, signal, call, realized,
                   trades, last_observation, backtest, bot>>

\* risk_manager.activate_kill_switch(reason)
ActivateKillSwitch ==
    /\ risk_call = NoRiskCall
    /\ risk_manager' = activate_kill_switch(risk_manager)
    /\ risk_call' = [op |-> "activate_kill_switch", before |-> risk_manager]
    /\ UNCHANGED <<strategy, config, now, loop_phase, signal, call, realized,
                   trades, last_observation, backtest, bot>>

\* the caller takes the result
RiskReturn ==
    /\ risk_call # NoRiskCall
    /\ risk_call' = NoRiskCall
    /\ UNCHANGED <<strategy, config, now, loop_phase, signal, call, realized,
                   trades, risk_manager, last_observation, backtest, bot>>

NextRisk ==
    \/ NextRiskDay
    \/ /\ risk_call = NoRiskCall
       /\ \E account \in RiskAccounts, held \in Holdings :
            GetRiskStatus(account, held)
    \/ /\ risk_call = NoRiskCall
       /\ \E sig \in RiskSignals, account \in RiskAccounts, held \in Holdings :
            ValidateSignal(sig, account, held)
    \/ ResetKillSwitch
    \/ ActivateKillSwitch
    \/ RiskReturn

SpecRisk == InitRisk /\ [][NextRisk]_vars

\* a risk status has been computed: by get_risk_status, or inside
\* validate_signal
StatusComputed ==
    risk_call.op = "get_risk_status" \/ risk_call.op = "validate_signal"

KillSwitchWasActive == risk_call.before.kill_switch_active

DailyLossBreached ==
    /\ risk_manager.daily_starting_equity > 0
    /\ (risk_call.account.equity - risk_manager.daily_starting_equity) * PCT_DEN
         <= 0 - MAX_DAILY_LOSS_PCT_NUM * risk_manager.daily_starting_equity

WeeklyLossBreached ==
    /\ risk_manager.weekly_starting_equity > 0
    /\ (risk_call.account.equity - risk_manager.weekly_starting_equity) * PCT_DEN
         <= 0 - MAX_WEEKLY_LOSS_PCT_NUM * risk_manager.weekly_starting_equity

DrawdownBreached ==
    /\ risk_manager.peak_equity > 0
    /\ (risk_manager.peak_equity - risk_call.account.equity) * PCT_DEN
         >= MAX_DRAWDOWN_PCT_NUM * risk_manager.peak_equity

PositionCountReached == risk_call.n_held >= LIMIT_MAX_POSITIONS

AllocationReached ==
    /\ risk_call.account.portfolio_value > 0
    /\ risk_call.held_value * PCT_DEN
         >= MAX_PORTFOLIO_PCT_NUM * risk_call.account.portfolio_value

\* C16: the status names one blocking reason, that of the first condition
\* that holds in the order kill switch, daily loss, weekly loss, drawdown,
\* position count, allocation; can_trade is true, with no reason, exactly
\* when none of the six holds.
C16_BlockingPrecedence ==
    StatusComputed =>
      /\ risk_call.status.blocked_reason
           = IF KillSwitchWasActive THEN "Kill switch is active"
             ELSE IF DailyLossBreached THEN "Daily loss limit reached"
             ELSE IF WeeklyLossBreached THEN "Weekly loss limit reached"
             ELSE IF DrawdownBreached THEN "Max drawdown reached"
             ELSE IF PositionCountReached THEN "Max positions reached"
             ELSE IF AllocationReached THEN "Max portfolio allocation reached"
             ELSE "None"
      /\ risk_call.status.can_trade
           <=> ~(KillSwitchWasActive \/ DailyLossBreached \/ WeeklyLossBreached
                   \/ DrawdownBreached \/ PositionCountReached
                   \/ AllocationReached)
      /\ risk_call.status.can_trade
           <=> risk_call.status.blocked_reason = "None"

\* daily loss, weekly loss, drawdown and position count all hold at once
C16_Witness ==
    /\ risk_call.op = "get_risk_status" /\ ~KillSwitchWasActive
    /\ DailyLossBreached /\ WeeklyLossBreached /\ DrawdownBreached
    /\ PositionCountReached
    /\ risk_call.status.blocked_reason = "Daily loss limit reached"

\* the position count and the allocation limit hold at once
C16_WitnessCount ==
    /\ risk_call.op = "get_risk_status"
    /\ PositionCountReached /\ AllocationReached
    /\ risk_call.status.blocked_reason = "Max positions reached"

\* the weekly limit alone of the two loss limits
C16_WitnessWeekly ==
    /\ risk_call.op = "get_risk_status"
    /\ ~DailyLossBreached /\ WeeklyLossBreached /\ DrawdownBreached
    /\ risk_call.status.blocked_reason = "Weekly loss limit reached"

\* C17: the kill switch is latched.  A status that reports the drawdown
\* breach, and activate_kill_switch, leave it set; once set it stays set
\* through every call but reset_kill_switch, whatever the equity and the
\* day; and every status computed while it is set refuses trading with the
\* kill-switch reason.
C17_KillSwitchLatch ==
    risk_call # NoRiskCall =>
      /\ (risk_call.before.kill_switch_active
            /\ risk_call.op # "reset_kill_switch")
           => risk_manager.kill_switch_active
      /\ risk_call.op = "activate_kill_switch"
           => risk_manager.kill_switch_active
      /\ risk_call.op = "reset_kill_switch"
           => ~risk_manager.kill_switch_active
      /\ StatusComputed =>
           /\ risk_call.status.blocked_reason = "Max drawdown reached"
                => risk_manager.kill_switch_active
           /\ risk_call.before.kill_switch_active
                => /\ ~risk_call.status.can_trade
                   /\ risk_call.status.blocked_reason = "Kill switch is active"
           /\ (~risk_call.before.kill_switch_active
                 /\ risk_call.status.blocked_reason # "Max drawdown reached")
                => ~risk_manager.kill_switch_active

\* the drawdown breach sets the switch
C17_Witness ==
    /\ risk_call.op = "get_risk_status"
    /\ ~risk_call.before.kill_switch_active
    /\ risk_call.status.blocked_reason = "Max drawdown reached"
    /\ risk_manager.kill_switch_active

\* with the switch set, equity reaches a new peak on the Monday of a new week
C17_WitnessRecovery ==
    /\ risk_call.op = "get_risk_status"
    /\ risk_call.before.kill_switch_active
    /\ risk_call.before.peak_equity > 0
    /\ risk_call.account.equity > risk_call.before.peak_equity
    /\ risk_call.before.last_daily_reset # NoDate
    /\ risk_call.before.last_daily_reset # risk_call.today
    /\ weekday(risk_call.today) = MONDAY
    /\ risk_call.status.blocked_reason = "Kill switch is active"

Validated == risk_call.op = "validate_signal"

\* C18: validate_signal rejects any signal, of any type, with the blocking
\* reason and size 0 when the status it recomputes is blocked; when it is
\* not blocked a SELL or HOLD is accepted with size 0 and no reason, and a
\* BUY for a symbol found among the given positions is rejected.
C18_ValidateGate ==
    Validated =>
      /\ ~risk_call.status.can_trade =>
           risk_call.result
             = Validation(FALSE, risk_call.status.blocked_reason, Ratio(0, 1))
      /\ (risk_call.status.can_trade /\ risk_call.sig.signal_type # "BUY") =>
           risk_call.result = Validation(TRUE, "None", Ratio(0, 1))
      /\ (risk_call.status.can_trade /\ risk_call.sig.signal_type = "BUY"
            /\ risk_call.holds_symbol) =>
           risk_call.result
             = Validation(FALSE, "Already have position", Ratio(0, 1))

\* a SELL is refused on the daily loss limit
C18_Witness ==
    /\ Validated /\ risk_call.sig.signal_type = "SELL"
    /\ risk_call.status.blocked_reason = "Daily loss limit reached"
    /\ ~risk_call.result.is_valid
    /\ risk_call.result.reason = "Daily loss limit reached"

\* a BUY for a symbol already held, nothing blocking
C18_WitnessHeld ==
    /\ Validated /\ risk_call.sig.signal_type = "BUY"
    /\ risk_call.status.can_trade /\ risk_call.holds_symbol
    /\ ~risk_call.result.is_valid

\* an unblocked BUY for a symbol not among the given positions
SizedBuy ==
    /\ Validated /\ risk_call.status.can_trade
    /\ risk_call.sig.signal_type = "BUY" /\ ~risk_call.holds_symbol

\* C19: an unblocked BUY for a symbol not yet held is sized
\* min(portfolio_value * max_position_size_pct, buying_power) * strength;
\* it is accepted with that size when the size is >= 1 and rejected with size
\* 0 when it is < 1; an accepted size exceeds neither the buying power nor
\* portfolio_value * max_position_size_pct.
C19_PositionSize ==
    SizedBuy =>
      LET pv == risk_call.account.portfolio_value
          bp == risk_call.account.buying_power
          strength == risk_call.sig.strength
          \* min(pv * pct, bp) * strength = wanted / scale
          smaller == IF pv * MAX_POSITION_SIZE_PCT_NUM <= bp * PCT_DEN
                       THEN pv * MAX_POSITION_SIZE_PCT_NUM ELSE bp * PCT_DEN
          wanted == smaller * strength.num
          scale == PCT_DEN * strength.den
          size == risk_call.result.size
      IN  /\ wanted >= scale =>
               /\ risk_call.result.is_valid
               /\ risk_call.result.reason = "None"
               /\ size.num * scale = wanted * size.den
               /\ size.num <= bp * size.den
               /\ size.num * PCT_DEN <= pv * MAX_POSITION_SIZE_PCT_NUM * size.den
          /\ wanted < scale =>
               risk_call.result
                 = Validation(FALSE, "Position size too small", Ratio(0, 1))

\* a size of exactly one dollar is accepted
C19_Witness ==
    /\ SizedBuy /\ risk_call.result.is_valid
    /\ risk_call.result.size.num = risk_call.result.size.den

\* the buying power is the smaller of the two caps
C19_WitnessBuyingPower ==
    /\ SizedBuy /\ risk_call.result.is_valid
    /\ risk_call.account.buying_power * PCT_DEN
         < risk_call.account.portfolio_value * MAX_POSITION_SIZE_PCT_NUM
    /\ risk_call.result.size.num
         = risk_call.account.buying_power * risk_call.result.size.den

\* a size just under one dollar is rejected
C19_WitnessTooSmall ==
    /\ SizedBuy /\ ~risk_call.result.is_valid
    /\ risk_call.account.portfolio_value > 0
    /\ risk_call.account.buying_power > 0
    /\ risk_call.sig.strength.num = risk_call.sig.strength.den

\* the observation is the first of its calendar day
FirstOfDay == risk_call.last_observation # risk_call.today

\* C20: an equity observation sets daily_starting_equity when it is the
\* first of its calendar day and leaves it alone otherwise; it sets
\* weekly_starting_equity when it is the very first observation or the first
\* one made on a Monday, and leaves it alone otherwise.
C20_Baselines ==
    StatusComputed =>
      /\ risk_manager.daily_starting_equity
           = IF FirstOfDay THEN risk_call.account.equity
             ELSE risk_call.before.daily_starting_equity
      /\ risk_manager.weekly_starting_equity
           = IF risk_call.last_observation = NoDate
                  \/ (weekday(risk_call.today) = MONDAY /\ FirstOfDay)
               THEN risk_call.account.equity
               ELSE risk_call.before.weekly_starting_equity

\* the first observation of a Monday, after an earlier day's, moves both
\* baselines
C20_Witness ==
    /\ StatusComputed /\ FirstOfDay /\ risk_call.last_observation # NoDate
    /\ weekday(risk_call.today) = MONDAY
    /\ risk_call.before.weekly_starting_equity # risk_call.account.equity
    /\ risk_manager.weekly_starting_equity = risk_call.account.equity
    /\ risk_manager.daily_starting_equity = risk_call.account.equity

\* a further observation of that Monday, at another equity, moves neither
C20_WitnessSameDay ==
    /\ StatusComputed /\ ~FirstOfDay
    /\ weekday(risk_call.today) = MONDAY
    /\ risk_call.before.weekly_starting_equity # risk_call.account.equity
    /\ risk_manager.weekly_starting_equity
         = risk_call.before.weekly_starting_equity
    /\ risk_manager.daily_starting_equity # risk_call.account.equity

\* the first observation of a day that is no Monday moves the daily baseline
C20_WitnessWeekday ==
    /\ StatusComputed /\ FirstOfDay /\ risk_call.last_observation # NoDate
    /\ weekday(risk_call.today) # MONDAY
    /\ risk_call.before.weekly_starting_equity # risk_call.account.equity
    /\ risk_manager.weekly_starting_equity
         = risk_call.before.weekly_starting_equity
    /\ risk_manager.daily_starting_equity = risk_call.account.equity

----------------------------------------------------------------------------
\* BacktestEngine (src/backtest/engine.py).  A float is an exact fraction
\* [num, den] in lowest terms with den > 0; a timestamp is the position of
\* its bar in the series, 1 for the first bar.

Abs(x) == IF x < 0 THEN 0 - x ELSE x

Frac(n, d) ==
    LET g == Gcd(Abs(n), Abs(d))
    IN  IF d < 0 THEN [num |-> (0 - n) \div g, den |-> (0 - d) \div g]
                 ELSE [num |-> n \div g, den |-> d \div g]

Whole(n) == Frac(n, 1)
Zero == Whole(0)
One == Whole(1)

Lcm(a, b) == (a \div Gcd(a, b)) * b

\* x + y, x - y, x * y, x / y (y # 0), x <= y, x < y
Plus(x, y) ==
    LET l == Lcm(x.den, y.den)
    IN  Frac(x.num * (l \div x.den) + y.num * (l \div y.den), l)

Minus(x, y) == Plus(x, [num |-> 0 - y.num, den |-> y.den])

Times(x, y) ==
    LET g1 == Gcd(Abs(x.num), y.den)
        g2 == Gcd(Abs(y.num), x.den)
    IN  IF x.num = 0 \/ y.num = 0 THEN Zero
        ELSE Frac((x.num \div g1) * (y.num \div g2),
                  (x.den \div g2) * (y.den \div g1))

Over(x, y) == Times(x, Frac(y.den, y.num))

LessEq(x, y) == IF x.den = y.den THEN x.num <= y.num ELSE Minus(x, y).num <= 0
Less(x, y) == IF x.den = y.den THEN x.num < y.num ELSE Minus(x, y).num < 0

\* the sequence s with every entry computed, once
Computed(s) == s \o << >>

RECURSIVE Sum(_)
Sum(s) == IF s = << >> THEN Zero ELSE Plus(Head(s), Sum(Tail(s)))

\* the bars a strategy must have seen before it is asked for a signal
MIN_DATA == 20

\* the values a SignalType takes
SignalTypes == {"BUY", "SELL", "HOLD"}

\* float("inf"), and a value Python's None stands for
Infinity == [inf |-> TRUE]
NoPrice == [none |-> TRUE]
NoResult == [none |-> TRUE]

\* BacktestTrade(...); side is always "long"
BacktestTrade(entry_date, entry_price, exit_date, exit_price, quantity, pnl, exit_reason) ==
    [entry_date |-> entry_date, entry_price |-> entry_price,
     exit_date |-> exit_date, exit_price |-> exit_price,
     quantity |-> quantity, side |-> "long", pnl |-> pnl,
     pnl_pct |-> Over(pnl, Times(entry_price, quantity)),
     exit_reason |-> exit_reason]

\* the truth value Python gives "if exit_price:"
Truthy(exit_price) == exit_price # NoPrice /\ exit_price.num # 0

\* Track equity: capital, plus the open position marked at the bar's close
current_value(run, price) ==
    IF run.position # NoPosition
    THEN Plus(run.capital,
              Times(Minus(price, run.position.entry_price), run.position.quantity))
    ELSE run.capital

track_equity_after_warmup(run, price, timestamp) ==
    IF timestamp < MIN_DATA THEN run
    ELSE [run EXCEPT !.equity_curve =
              Append(@, [timestamp |-> timestamp, equity |-> current_value(run, price)])]

track_equity(run, price, timestamp) ==
    [run EXCEPT !.equity_curve =
        Append(@, [timestamp |-> timestamp, equity |-> current_value(run, price)])]

\* Check stop loss / take profit for the open position
stop_or_target_at_the_level(self, position, price) ==
    IF LessEq(price, position.stop_loss)
    THEN [exit_price |-> position.stop_loss, exit_reason |-> "stop_loss"]
    ELSE IF LessEq(position.take_profit, price)
    THEN [exit_price |-> position.take_profit, exit_reason |-> "take_profit"]
    ELSE [exit_price |-> NoPrice, exit_reason |-> "None"]

stop_or_target(self, position, price) ==
    IF LessEq(price, position.stop_loss)
    THEN [exit_price |-> Times(position.stop_loss, Minus(One, self.slippage_pct)),
          exit_reason |-> "stop_loss"]
    ELSE IF LessEq(position.take_profit, price)
    THEN [exit_price |-> Times(position.take_profit, Minus(One, self.slippage_pct)),
          exit_reason |-> "take_profit"]
    ELSE [exit_price |-> NoPrice, exit_reason |-> "None"]

\* the exit of lines 125-140, and of lines 169-184: pnl net of the exit
\* leg's commission, the stake and the pnl back to capital, one trade more
close_position(self, run, exit_price, exit_reason, timestamp) ==
    LET position == run.position
        pnl == Minus(Times(Minus(exit_price, position.entry_price), position.quantity),
                     Times(Times(exit_price, position.quantity), self.commission_pct))
    IN  [run EXCEPT
            !.capital = Plus(@, Plus(Times(position.quantity, position.entry_price), pnl)),
            !.trades = Append(@, BacktestTrade(position.entry_date, position.entry_price,
                                               timestamp, exit_price, position.quantity,
                                               pnl, exit_reason)),
            !.position = NoPosition]

\* Open long position
open_position_at_the_close(self, args, run, price, timestamp) ==
    LET position_value == Times(run.capital, args.position_size_pct)
        entry_price == price
        quantity == Over(Times(position_value, Minus(One, self.commission_pct)),
                         entry_price)
    IN  [run EXCEPT
            !.position = [entry_date |-> timestamp, entry_price |-> entry_price,
                          quantity |-> quantity,
                          stop_loss |-> Times(entry_price, Minus(One, args.stop_loss_pct)),
                          take_profit |-> Times(entry_price, Plus(One, args.take_profit_pct))],
            !.capital = Minus(@, position_value),
            !.opened = @ + 1]

open_position(self, args, run, price, timestamp) ==
    LET position_value == Times(run.capital, args.position_size_pct)
        entry_price == Times(price, Plus(One, self.slippage_pct))
        quantity == Over(Times(position_value, Minus(One, self.commission_pct)),
                         entry_price)
    IN  [run EXCEPT
            !.position = [entry_date |-> timestamp, entry_price |-> entry_price,
                          quantity |-> quantity,
                          stop_loss |-> Times(entry_price, Minus(One, args.stop_loss_pct)),
                          take_profit |-> Times(entry_price, Plus(One, args.take_profit_pct))],
            !.capital = Minus(@, position_value),
            !.opened = @ + 1]

\* an execute whose BUY opens a position over the one that is held
execute_reopening(self, args, run, signal_type, price, timestamp) ==
    IF signal_type = "BUY"
    THEN open_position(self, args, run, price, timestamp)
    ELSE IF signal_type = "SELL" /\ run.position # NoPosition
    THEN close_position(self, run, Times(price, Minus(One, self.slippage_pct)),
                        "signal", timestamp)
    ELSE run

\* Execute signals
execute(self, args, run, signal_type, price, timestamp) ==
    IF signal_type = "BUY" /\ run.position = NoPosition
    THEN open_position(self, args, run, price, timestamp)
    ELSE IF signal_type = "SELL" /\ run.position # NoPosition
    THEN close_position(self, run, Times(price, Minus(One, self.slippage_pct)),
                        "signal", timestamp)
    ELSE run

\* the bar at timestamp has a stop or a target exit
exits_at_level(self, run, price) ==
    /\ run.position # NoPosition
    /\ Truthy(stop_or_target(self, run.position, price).exit_price)

\* the bar at timestamp asks the strategy for a signal
asks_signal(self, run, price, timestamp) ==
    ~exits_at_level(self, run, price) /\ ~(timestamp < MIN_DATA)

\* a loop body whose warm-up is one bar short
loop_body_short_warmup(self, args, run, price, timestamp, signal_type) ==
    LET tracked == track_equity(run, price, timestamp)
    IN  IF exits_at_level(self, run, price)
        THEN LET x == stop_or_target(self, run.position, price)
             IN  close_position(self, tracked, x.exit_price, x.exit_reason, timestamp)
        ELSE IF timestamp < MIN_DATA - 1 THEN tracked
        ELSE execute(self, args,
                     [tracked EXCEPT !.signals =
                         Append(@, [timestamp |-> timestamp, signal_type |-> signal_type])],
                     IF signal_type = "None" THEN "BUY" ELSE signal_type,
                     price, timestamp)

\* the body of the loop over the bars, on the bar at timestamp; signal_type
\* is what strategy.generate_signal returns if the bar asks for it
loop_body(self, args, run, price, timestamp, signal_type) ==
    LET tracked == track_equity(run, price, timestamp)
    IN  IF exits_at_level(self, run, price)
        THEN LET x == stop_or_target(self, run.position, price)
             IN  close_position(self, tracked, x.exit_price, x.exit_reason, timestamp)
        ELSE IF timestamp < MIN_DATA THEN tracked
        ELSE execute(self, args,
                     [tracked EXCEPT !.signals =
                         Append(@, [timestamp |-> timestamp, signal_type |-> signal_type])],
                     signal_type, price, timestamp)

\* Close any remaining position at end.  The local position is left as it
\* is: run returns the trades, and no position.
close_remaining_with_costs(self, run) ==
    IF run.position = NoPosition THEN run
    ELSE [close_position(self, run,
                         Times(Whole(run.data[Len(run.data)]), Minus(One, self.slippage_pct)),
                         "end_of_data", Len(run.data))
            EXCEPT !.position = run.position]

close_remaining(self, run) ==
    IF run.position = NoPosition THEN run
    ELSE LET position == run.position
             exit_price == Whole(run.data[Len(run.data)])
             pnl == Times(Minus(exit_price, position.entry_price), position.quantity)
         IN  [run EXCEPT
                !.capital = Plus(@, Plus(Times(position.quantity, position.entry_price), pnl)),
                !.trades = Append(@, BacktestTrade(position.entry_date, position.entry_price,
                                                   Len(run.data), exit_price,
                                                   position.quantity, pnl, "end_of_data"))]

\* Series.max()
series_max(s) ==
    s[CHOOSE j \in 1..Len(s) : \A h \in 1..Len(s) : LessEq(s[h], s[j])]

\* equity_df["equity"].cummax()
cummax(equity) ==
    Computed([k \in 1..Len(equity) |-> series_max(SubSeq(equity, 1, k))])

\* equity_df["equity"].pct_change(), without its first entry (NaN)
pct_change(equity) ==
    Computed([k \in 1..(Len(equity) - 1) |->
                 Minus(Over(equity[k + 1], equity[k]), One)])

\* returns.std() > 0: two returns at least, and not all of them equal
std_positive(returns) ==
    \E j, k \in 1..Len(returns) : returns[j] # returns[k]

\* mean / std * sqrt(252) is not a fraction: the value is kept as the
\* returns it is computed from
Sharpe(returns) == [sharpe_of |-> returns]

pnls(ts) == Computed([k \in 1..Len(ts) |-> ts[k].pnl])

\* [t for t in trades if t.pnl > 0], [t for t in trades if t.pnl <= 0]
winners(ts) == SelectSeq(ts, LAMBDA t : Less(Zero, t.pnl))
losers_strict(ts) == SelectSeq(ts, LAMBDA t : Less(t.pnl, Zero))
losers(ts) == SelectSeq(ts, LAMBDA t : LessEq(t.pnl, Zero))

BacktestResult(initial_capital, final_capital, total_return, total_return_pct, ts, winning_trades, losing_trades, win_rate, avg_win, avg_loss, profit_factor, max_drawdown, max_drawdown_pct, sharpe_ratio, equity_curve) ==
    [raised |-> "None",
     initial_capital |-> initial_capital, final_capital |-> final_capital,
     total_return |-> total_return, total_return_pct |-> total_return_pct,
     num_trades |-> Len(ts),
     winning_trades |-> winning_trades, losing_trades |-> losing_trades,
     win_rate |-> win_rate, avg_win |-> avg_win, avg_loss |-> avg_loss,
     profit_factor |-> profit_factor, max_drawdown |-> max_drawdown,
     max_drawdown_pct |-> max_drawdown_pct, sharpe_ratio |-> sharpe_ratio,
     trades |-> ts, equity_curve |-> equity_curve]

\* _calculate_metrics
calculate_metrics_strict_losers(self, ts, equity_curve) ==
    IF equity_curve = << >>
    THEN BacktestResult(self.initial_capital, self.initial_capital, Zero, Zero,
                        << >>, 0, 0, Zero, Zero, Zero, Zero, Zero, Zero, Zero, << >>)
    ELSE
    LET equity == Computed([k \in 1..Len(equity_curve) |-> equity_curve[k].equity])
        final_capital == equity[Len(equity)]
        total_return == Minus(final_capital, self.initial_capital)
        winning_trades == winners(ts)
        losing_trades == losers_strict(ts)
        total_wins == Sum(pnls(winning_trades))
        total_losses_signed == Sum(pnls(losing_trades))
        total_losses == Frac(Abs(total_losses_signed.num), total_losses_signed.den)
        peak == cummax(equity)
        drawdown == Computed([k \in 1..Len(equity) |-> Minus(peak[k], equity[k])])
        drawdown_pct ==
            Computed([k \in 1..Len(equity) |-> Over(drawdown[k], peak[k])])
        returns == pct_change(equity)
    IN  BacktestResult(
            self.initial_capital, final_capital, total_return,
            Over(total_return, self.initial_capital),
            ts, Len(winning_trades), Len(losing_trades),
            IF ts # << >> THEN Frac(Len(winning_trades), Len(ts)) ELSE Zero,
            IF winning_trades # << >>
                THEN Over(total_wins, Whole(Len(winning_trades))) ELSE Zero,
            IF losing_trades # << >>
                THEN Over(total_losses, Whole(Len(losing_trades))) ELSE Zero,
            IF Less(Zero, total_losses) THEN Over(total_wins, total_losses)
                                        ELSE Infinity,
            series_max(drawdown), series_max(drawdown_pct),
            IF std_positive(returns) THEN Sharpe(returns) ELSE Zero,
            equity_curve)

calculate_metrics(self, ts, equity_curve) ==
    IF equity_curve = << >>
    THEN BacktestResult(self.initial_capital, self.initial_capital, Zero, Zero,
                        << >>, 0, 0, Zero, Zero, Zero, Zero, Zero, Zero, Zero, << >>)
    ELSE
    LET equity == Computed([k \in 1..Len(equity_curve) |-> equity_curve[k].equity])
        final_capital == equity[Len(equity)]
        total_return == Minus(final_capital, self.initial_capital)
        winning_trades == winners(ts)
        losing_trades == losers(ts)
        total_wins == Sum(pnls(winning_trades))
        total_losses_signed == Sum(pnls(losing_trades))
        total_losses == Frac(Abs(total_losses_signed.num), total_losses_signed.den)
        peak == cummax(equity)
        drawdown == Computed([k \in 1..Len(equity) |-> Minus(peak[k], equity[k])])
        drawdown_pct ==
            Computed([k \in 1..Len(equity) |-> Over(drawdown[k], peak[k])])
        returns == pct_change(equity)
    IN  BacktestResult(
            self.initial_capital, final_capital, total_return,
            Over(total_return, self.initial_capital),
            ts, Len(winning_trades), Len(losing_trades),
            IF ts # << >> THEN Frac(Len(winning_trades), Len(ts)) ELSE Zero,
            IF winning_trades # << >>
                THEN Over(total_wins, Whole(Len(winning_trades))) ELSE Zero,
            IF losing_trades # << >>
                THEN Over(total_losses, Whole(Len(losing_trades))) ELSE Zero,
            IF Less(Zero, total_losses) THEN Over(total_wins, total_losses)
                                        ELSE Infinity,
            series_max(drawdown), series_max(drawdown_pct),
            IF std_positive(returns) THEN Sharpe(returns) ELSE Zero,
            equity_curve)

\* what run does once the loop is over: the remaining position, then
\* data.index[0] (an IndexError on an empty series), then the metrics
finish(self, run) ==
    LET closed == close_remaining(self, run)
    IN  [closed EXCEPT !.result =
            IF Len(run.data) = 0 THEN [raised |-> "IndexError"]
            ELSE calculate_metrics(self, closed.trades, closed.equity_curve)]

----------------------------------------------------------------------------
\* One BacktestEngine.run as a state machine: a step per bar of the series,
\* then the step that closes what is left and computes the metrics.

\* The engine and the arguments of run.  The fractions are coarse binary
\* and decimal ones, and the closes below are chosen with them, so that
\* every entry price, level, quantity and pnl is an exact short fraction.
Engine ==
    [initial_capital |-> Whole(100), commission_pct |-> Frac(1, 2),
     slippage_pct |-> Frac(1, 4)]
RunArgs ==
    [position_size_pct |-> Frac(1, 2), stop_loss_pct |-> Frac(1, 5),
     take_profit_pct |-> Frac(3, 5)]

\* Closes of the bars.  A position bought at the close 16 enters at 20 with
\* its stop at 16 and its target at 32: 8 is under the stop, 16 on it, 20
\* between the levels, 32 on the target.
Closes == {8, 16, 20, 32}
WarmupClose == 16

\* the series: every length below MIN_DATA (any last close), and MIN_DATA - 1
\* bars followed by one to TailBound bars of any closes
ShortSeries ==
    { [k \in 1..n |-> IF k = n THEN c ELSE WarmupClose] :
        n \in 0..(MIN_DATA - 1), c \in Closes }
LongSeries ==
    UNION { { [k \in 1..(MIN_DATA - 1 + n) |->
                 IF k < MIN_DATA THEN WarmupClose ELSE tail[k - MIN_DATA + 1]] :
              tail \in [1..n -> Closes] } : n \in 1..TailBound }

NewRun(data) ==
    [data |-> data, i |-> 0, capital |-> Engine.initial_capital,
     position |-> NoPosition, trades |-> << >>, equity_curve |-> << >>,
     signals |-> << >>, opened |-> 0, result |-> NoResult]

InitBacktest ==
    /\ opening_ranges = EmptyDict
    /\ positions = EmptyDict
    /\ daily_pnl = 0
    /\ daily_starting_equity = 0
    /\ last_reset_date = NoDate
    /\ is_daily_stopped = FALSE
    /\ max_positions = 1
    /\ check_false_breakout = TRUE
    /\ now = [date |-> 1, minute |-> 0]
    /\ loop_phase = "None"
    /\ signal = NoSignal
    /\ call = NoCall
    /\ realized = 0
    /\ trades = 0
    /\ risk_manager = RiskManagerInit
    /\ risk_call = NoRiskCall
    /\ last_observation = NoDate
    /\ backtest \in { NewRun(data) : data \in ShortSeries \cup LongSeries }
    /\ bot = NoBot

\* one turn of "for i in range(len(data))"
ProcessBar(signal_type) ==
    /\ backtest.result = NoResult
    /\ backtest.i < Len(backtest.data)
    /\ LET timestamp == backtest.i + 1
           price == Whole(backtest.data[timestamp])
       IN  /\ (signal_type = "None")
                = ~asks_signal(Engine, backtest, price, timestamp)
           /\ backtest' =
                [loop_body(Engine, RunArgs, backtest, price, timestamp, signal_type)
                    EXCEPT !.i = timestamp]
    /\ UNCHANGED <<strategy, config, now, loop_phase, signal, call, realized,
                   trades, risk, bot>>

\* the loop is over: lines 186-212
Finish ==
    /\ backtest.result = NoResult
    /\ backtest.i = Len(backtest.data)
    /\ backtest' = finish(Engine, backtest)
    /\ UNCHANGED <<strategy, config, now, loop_phase, signal, call, realized,
                   trades, risk, bot>>

NextBacktest ==
    \/ \E signal_type \in SignalTypes \cup {"None"} : ProcessBar(signal_type)
    \/ Finish

SpecBacktest == InitBacktest /\ [][NextBacktest]_vars

\* the engine's view of the bar a step processes
BarStep == backtest'.i = backtest.i + 1
BarClose == Whole(backtest.data[backtest.i + 1])
StopLevel(position) ==
    Times(position.entry_price, Minus(One, RunArgs.stop_loss_pct))
TargetLevel(position) ==
    Times(position.entry_price, Plus(One, RunArgs.take_profit_pct))
AfterSlippage(price) == Times(price, Minus(One, Engine.slippage_pct))

\* the step closes the open position at exit_price, commission charged on
\* the exit leg, with exactly one trade appended
ClosesAt(exit_price, exit_reason) ==
    LET position == backtest.position
        pnl == Minus(Times(Minus(exit_price, position.entry_price), position.quantity),
                     Times(Times(exit_price, position.quantity), Engine.commission_pct))
    IN  /\ backtest'.position = NoPosition
        /\ Len(backtest'.trades) = Len(backtest.trades) + 1
        /\ SubSeq(backtest'.trades, 1, Len(backtest.trades)) = backtest.trades
        /\ LET t == backtest'.trades[Len(backtest'.trades)]
           IN  /\ t.exit_price = exit_price
               /\ t.exit_reason = exit_reason
               /\ t.exit_date = backtest.i + 1
               /\ t.entry_date = position.entry_date
               /\ t.entry_price = position.entry_price
               /\ t.quantity = position.quantity
               /\ t.pnl = pnl
        /\ backtest'.capital =
              Plus(backtest.capital,
                   Plus(Times(position.quantity, position.entry_price), pnl))

SignalAsked == Len(backtest'.signals) = Len(backtest.signals) + 1
SignalReturned == backtest'.signals[Len(backtest'.signals)].signal_type

\* C21: run on a series of fewer than 20 bars, the empty one included,
\* raises nothing and returns num_trades = 0 with win_rate, avg_win,
\* avg_loss, profit_factor, max_drawdown, max_drawdown_pct, sharpe_ratio
\* and total_return all 0.
C21_ShortSeries ==
    (backtest.result # NoResult /\ Len(backtest.data) < MIN_DATA) =>
        /\ backtest.result.raised = "None"
        /\ backtest.result.num_trades = 0
        /\ backtest.result.win_rate = Zero
        /\ backtest.result.avg_win = Zero
        /\ backtest.result.avg_loss = Zero
        /\ backtest.result.profit_factor = Zero
        /\ backtest.result.max_drawdown = Zero
        /\ backtest.result.max_drawdown_pct = Zero
        /\ backtest.result.sharpe_ratio = Zero
        /\ backtest.result.total_return = Zero

\* C22: on a bar with a position open, a close <= stop exits at
\* stop * (1 - slippage) as stop_loss, otherwise a close >= target exits at
\* target * (1 - slippage) as take_profit, the levels being those of the
\* entry; the exit charges the exit leg's commission, appends one trade and
\* clears the position, and the bar asks for no signal and opens nothing.
C22_StopTargetExit ==
    [][ (BarStep /\ backtest.position # NoPosition) =>
          IF LessEq(BarClose, StopLevel(backtest.position))
          THEN /\ ClosesAt(AfterSlippage(StopLevel(backtest.position)), "stop_loss")
               /\ ~SignalAsked
               /\ backtest'.opened = backtest.opened
          ELSE IF LessEq(TargetLevel(backtest.position), BarClose)
          THEN /\ ClosesAt(AfterSlippage(TargetLevel(backtest.position)), "take_profit")
               /\ ~SignalAsked
               /\ backtest'.opened = backtest.opened
          ELSE TRUE ]_vars

LastTrade == backtest.trades[Len(backtest.trades)]

\* a stop exit on the bar just processed, the close exactly on the stop
C22_Witness ==
    /\ backtest # NoRun
    /\ backtest.result = NoResult
    /\ backtest.trades # << >>
    /\ LastTrade.exit_date = backtest.i
    /\ LastTrade.exit_reason = "stop_loss"
    /\ Whole(backtest.data[backtest.i])
         = Times(LastTrade.entry_price, Minus(One, RunArgs.stop_loss_pct))
    /\ backtest.position = NoPosition

\* a target exit on the bar just processed
C22_WitnessTarget ==
    /\ backtest # NoRun
    /\ backtest.result = NoResult
    /\ backtest.trades # << >>
    /\ LastTrade.exit_date = backtest.i
    /\ LastTrade.exit_reason = "take_profit"
    /\ backtest.position = NoPosition

\* C23: on a bar past warm-up without a stop or target exit the strategy is
\* asked for a signal: BUY with no position opens one at close * (1 +
\* slippage) with stop = entry * (1 - stop_loss_pct) and target = entry *
\* (1 + take_profit_pct); SELL with a position closes it at close * (1 -
\* slippage) with commission, as one trade with reason signal; BUY with a
\* position, SELL without one and HOLD change neither capital nor position
\* nor trades.
C23_SignalExecution ==
    [][ ( /\ BarStep
          /\ backtest.i + 1 >= MIN_DATA
          /\ \/ backtest.position = NoPosition
             \/ /\ Less(StopLevel(backtest.position), BarClose)
                /\ Less(BarClose, TargetLevel(backtest.position)) ) =>
          /\ SignalAsked
          /\ IF SignalReturned = "BUY" /\ backtest.position = NoPosition
             THEN LET entry == Times(BarClose, Plus(One, Engine.slippage_pct))
                  IN  /\ backtest'.position # NoPosition
                      /\ backtest'.position.entry_price = entry
                      /\ backtest'.position.entry_date = backtest.i + 1
                      /\ backtest'.position.stop_loss
                           = Times(entry, Minus(One, RunArgs.stop_loss_pct))
                      /\ backtest'.position.take_profit
                           = Times(entry, Plus(One, RunArgs.take_profit_pct))
                      /\ backtest'.opened = backtest.opened + 1
                      /\ backtest'.trades = backtest.trades
             ELSE IF SignalReturned = "SELL" /\ backtest.position # NoPosition
             THEN /\ ClosesAt(AfterSlippage(BarClose), "signal")
                  /\ backtest'.opened = backtest.opened
             ELSE /\ backtest'.capital = backtest.capital
                  /\ backtest'.position = backtest.position
                  /\ backtest'.trades = backtest.trades
                  /\ backtest'.opened = backtest.opened ]_vars

LastSignal == backtest.signals[Len(backtest.signals)]

\* a position opened by a BUY on the bar just processed
C23_Witness ==
    /\ backtest # NoRun
    /\ backtest.result = NoResult
    /\ backtest.position # NoPosition
    /\ backtest.position.entry_date = backtest.i
    /\ backtest.signals # << >>
    /\ LastSignal = [timestamp |-> backtest.i, signal_type |-> "BUY"]

\* a position closed by a SELL on the bar just processed
C23_WitnessSell ==
    /\ backtest # NoRun
    /\ backtest.result = NoResult
    /\ backtest.trades # << >>
    /\ LastTrade.exit_date = backtest.i
    /\ LastTrade.exit_reason = "signal"

\* a BUY ignored because a position, opened on an earlier bar, is held
C23_WitnessBuyHeld ==
    /\ backtest # NoRun
    /\ backtest.result = NoResult
    /\ backtest.position # NoPosition
    /\ backtest.position.entry_date < backtest.i
    /\ backtest.signals # << >>
    /\ LastSignal = [timestamp |-> backtest.i, signal_type |-> "BUY"]

\* a SELL ignored because nothing is held
C23_WitnessSellFlat ==
    /\ backtest # NoRun
    /\ backtest.result = NoResult
    /\ backtest.position = NoPosition
    /\ backtest.signals # << >>
    /\ LastSignal = [timestamp |-> backtest.i, signal_type |-> "SELL"]
    /\ \A k \in 1..Len(backtest.trades) : backtest.trades[k].exit_date # backtest.i

Returned == backtest.result # NoResult /\ backtest.result.raised = "None"

\* C24: when run returns, a position still open after the last bar has
\* been closed at the final close, with neither slippage nor commission, as
\* a trade with reason end_of_data; every position opened has its trade, so
\* the trades are as many as the positions opened and none is left open.
C24_EndOfData ==
    Returned =>
        /\ Len(backtest.result.trades) = backtest.opened
        /\ backtest.position # NoPosition =>
             LET t == backtest.result.trades[Len(backtest.result.trades)]
                 final == Whole(backtest.data[Len(backtest.data)])
             IN  /\ t.exit_reason = "end_of_data"
                 /\ t.exit_price = final
                 /\ t.exit_date = Len(backtest.data)
                 /\ t.entry_date = backtest.position.entry_date
                 /\ t.pnl = Times(Minus(final, backtest.position.entry_price),
                                  backtest.position.quantity)
        /\ backtest.position = NoPosition =>
             \A k \in 1..Len(backtest.result.trades) :
                 backtest.result.trades[k].exit_reason # "end_of_data"

\* run has returned after closing a position the last bar left open, at a
\* loss that slippage or commission would have changed
C24_Witness ==
    /\ backtest # NoRun
    /\ Returned
    /\ backtest.position # NoPosition
    /\ backtest.result.num_trades = 2
    /\ backtest.result.trades[2].exit_reason = "end_of_data"
    /\ backtest.result.trades[2].pnl # Zero

\* C25: every bar of the input, warm-up bars and bars with an exit or an
\* entry included, appends exactly one point to the equity curve, in bar
\* order, and the point is the equity before the bar's exit or entry:
\* capital, plus the position held so far marked at the bar's close.
C25_EquityCurve ==
    [][ BarStep =>
          backtest'.equity_curve =
              Append(backtest.equity_curve,
                     [timestamp |-> backtest.i + 1,
                      equity |->
                         IF backtest.position = NoPosition THEN backtest.capital
                         ELSE Plus(backtest.capital,
                                   Times(Minus(BarClose, backtest.position.entry_price),
                                         backtest.position.quantity))]) ]_vars

\* C25: the curve has one point per bar processed, the k-th for the k-th bar
C25_OnePointPerBar ==
    backtest # NoRun =>
        /\ Len(backtest.equity_curve) = backtest.i
        /\ \A k \in 1..Len(backtest.equity_curve) :
               backtest.equity_curve[k].timestamp = k

\* the bar just processed closed a position, and its point is not the
\* capital the exit left
C25_Witness ==
    /\ backtest # NoRun
    /\ backtest.result = NoResult
    /\ backtest.i >= MIN_DATA
    /\ backtest.trades # << >>
    /\ LastTrade.exit_date = backtest.i
    /\ backtest.equity_curve[backtest.i].equity # backtest.capital

\* a warm-up bar has its point
C25_WitnessWarmup ==
    /\ backtest # NoRun
    /\ backtest.i = MIN_DATA - 1
    /\ Len(backtest.equity_curve) = MIN_DATA - 1

----------------------------------------------------------------------------
\* C32: the point a bar appends to the equity curve is the account marked
\* to market: cash alone when flat, cash plus quantity * close of the open
\* position otherwise.
C32_MarkToMarket ==
    [][ BarStep =>
          backtest'.equity_curve[backtest.i + 1].equity =
              IF backtest.position = NoPosition THEN backtest.capital
              ELSE Plus(backtest.capital,
                        Times(backtest.position.quantity, BarClose)) ]_vars

\* C33: the final_capital run returns is the engine's cash once every
\* position has been closed, the close on the last bar and the forced close
\* at the end of the data included, and total_return is final_capital less
\* the initial capital.
C33_FinalCapital ==
    Returned =>
        /\ backtest.result.final_capital = backtest.capital
        /\ backtest.result.total_return =
               Minus(backtest.result.final_capital, Engine.initial_capital)

\* C34: no signal is asked for before the slice holds 20 bars: on the
\* first 19 bars no position is opened and no trade is recorded, every
\* trade is entered on bar 20 or later, and each of the 19 bars has its
\* point on the equity curve, equal to the initial capital.
C34_WarmUp ==
    /\ \A k \in 1..Len(backtest.signals) :
           backtest.signals[k].timestamp >= MIN_DATA
    /\ \A k \in 1..Len(backtest.trades) :
           backtest.trades[k].entry_date >= MIN_DATA
    /\ backtest.i < MIN_DATA =>
           /\ backtest.position = NoPosition
           /\ backtest.opened = 0
           /\ backtest.trades = << >>
    /\ \A k \in 1..backtest.i :
           k < MIN_DATA =>
               backtest.equity_curve[k] =
                   [timestamp |-> k, equity |-> Engine.initial_capital]

\* bar 20 asked for the first signal, a BUY, and opened the first position
C34_Witness ==
    /\ backtest.i = MIN_DATA
    /\ Len(backtest.signals) = 1
    /\ backtest.signals[1] = [timestamp |-> MIN_DATA, signal_type |-> "BUY"]
    /\ backtest.position # NoPosition
    /\ backtest.position.entry_date = MIN_DATA
    /\ Len(backtest.equity_curve) = MIN_DATA

----------------------------------------------------------------------------
\* the trade list in order of time

LevelExit(trade) == trade.exit_reason \in {"stop_loss", "take_profit"}

\* the later of two entries comes after the exit before it: strictly after
\* a stop or target exit, and not before an exit of another kind
Follows(entry_date, trade) ==
    IF LevelExit(trade) THEN entry_date > trade.exit_date
                        ELSE entry_date >= trade.exit_date

TradesInOrder(run) ==
    /\ \A k \in 1..Len(run.trades) :
          run.trades[k].exit_date >= run.trades[k].entry_date
    /\ \A k \in 1..(Len(run.trades) - 1) :
          Follows(run.trades[k + 1].entry_date, run.trades[k])
    /\ (run.result = NoResult /\ run.position # NoPosition /\ run.trades # << >>)
          => Follows(run.position.entry_date, run.trades[Len(run.trades)])

\* a step appends at most one trade and alters none; a position that is
\* held is closed or left as it is, never replaced by another
OnePositionStep ==
    /\ Len(backtest'.trades) \in {Len(backtest.trades), Len(backtest.trades) + 1}
    /\ SubSeq(backtest'.trades, 1, Len(backtest.trades)) = backtest.trades
    /\ (backtest.position # NoPosition /\ backtest'.position # NoPosition)
          => backtest'.position = backtest.position
    /\ (backtest.position # NoPosition /\ backtest'.position = NoPosition)
          => /\ Len(backtest'.trades) = Len(backtest.trades) + 1
             /\ backtest'.trades[Len(backtest'.trades)].entry_date
                   = backtest.position.entry_date

\* C39: the backtest holds at most one position at any bar, and its trade
\* list is append-only and chronologically non-overlapping: every recorded
\* trade has exit_date >= entry_date, and of two consecutive trades the
\* later one's entry_date is strictly after the earlier one's exit_date when
\* that exit was a stop or target exit, and not before it otherwise.
C39_TradesInOrder ==
    /\ [](backtest # NoRun => TradesInOrder(backtest))
    /\ [][(backtest # NoRun /\ backtest' # NoRun) => OnePositionStep]_vars

\* a finished run of two trades, the first closed at its stop and the second
\* entered on a later bar
C39_Witness ==
    /\ backtest # NoRun
    /\ backtest.result # NoResult
    /\ Len(backtest.trades) = 2
    /\ backtest.trades[1].exit_reason = "stop_loss"
    /\ backtest.trades[2].entry_date > backtest.trades[1].exit_date

\* a position entered on the bar after a SELL closed the one before it
C39_WitnessSignal ==
    /\ backtest # NoRun
    /\ backtest.result = NoResult
    /\ Len(backtest.trades) = 1
    /\ backtest.trades[1].exit_reason = "signal"
    /\ backtest.position # NoPosition
    /\ backtest.position.entry_date = backtest.trades[1].exit_date + 1

\* a BUY arrives while a position is held
C39_WitnessBuyHeld ==
    /\ backtest # NoRun
    /\ backtest.position # NoPosition
    /\ backtest.signals # << >>
    /\ backtest.signals[Len(backtest.signals)].signal_type = "BUY"
    /\ backtest.signals[Len(backtest.signals)].timestamp > backtest.position.entry_date

\* _calculate_metrics on its own: any list of up to MetricsBound trades, and
\* any equity curve of one to MetricsBound points.  The curves of run are
\* positive (a position never costs more than the capital staked on it).

PnlValues == {0 - 2, 0, 1, 3}
EquityValues == {1, 2, 3}

TradeOf(pnl) == BacktestTrade(1, One, 2, One, One, Whole(pnl), "signal")

TradeLists ==
    UNION { { [k \in 1..n |-> TradeOf(p[k])] : p \in [1..n -> PnlValues] } :
            n \in 0..MetricsBound }
EquityCurves ==
    UNION { { [k \in 1..n |-> [timestamp |-> k, equity |-> Whole(e[k])]] :
              e \in [1..n -> EquityValues] } : n \in 1..MetricsBound }

InitMetrics ==
    /\ opening_ranges = EmptyDict
    /\ positions = EmptyDict
    /\ daily_pnl = 0
    /\ daily_starting_equity = 0
    /\ last_reset_date = NoDate
    /\ is_daily_stopped = FALSE
    /\ max_positions = 1
    /\ check_false_breakout = TRUE
    /\ now = [date |-> 1, minute |-> 0]
    /\ loop_phase = "None"
    /\ signal = NoSignal
    /\ call = NoCall
    /\ realized = 0
    /\ trades = 0
    /\ risk_manager = RiskManagerInit
    /\ risk_call = NoRiskCall
    /\ last_observation = NoDate
    /\ backtest \in { [trades |-> ts, equity_curve |-> curve, result |-> NoResult] :
                      ts \in TradeLists, curve \in EquityCurves }
    /\ bot = NoBot

\* self._calculate_metrics(trades=trades, equity_curve=equity_curve)
CalculateMetrics ==
    /\ backtest.result = NoResult
    /\ backtest' = [backtest EXCEPT !.result =
                      calculate_metrics(Engine, backtest.trades, backtest.equity_curve)]
    /\ UNCHANGED <<strategy, config, now, loop_phase, signal, call, realized,
                   trades, risk, bot>>

NextMetrics == CalculateMetrics

SpecMetrics == InitMetrics /\ [][NextMetrics]_vars

Winning == { k \in 1..Len(backtest.trades) : Less(Zero, backtest.trades[k].pnl) }
Losing == { k \in 1..Len(backtest.trades) : LessEq(backtest.trades[k].pnl, Zero) }

RECURSIVE SumOver(_, _)
SumOver(f, S) ==
    IF S = {} THEN Zero
    ELSE LET k == CHOOSE x \in S : TRUE IN Plus(f[k], SumOver(f, S \ {k}))

\* the fall from the equity at j to the equity at k
Fall(j, k) ==
    Minus(backtest.equity_curve[j].equity, backtest.equity_curve[k].equity)

\* C26: the metrics of a non-empty equity curve and any trades: winning
\* counts pnl > 0 and losing pnl <= 0, together num_trades; win_rate is
\* winning / num_trades, or 0 without trades; profit_factor is the winning
\* sum over the absolute losing sum, infinite when the losing sum is 0;
\* max_drawdown is the largest running peak less equity, and is >= 0.
C26_Metrics ==
    (backtest # NoRun /\ Returned /\ backtest.equity_curve # << >>) =>
        LET r == backtest.result
            wins == SumOver(pnls(backtest.trades), Winning)
            losses == SumOver(pnls(backtest.trades), Losing)
        IN  /\ r.num_trades = Len(backtest.trades)
            /\ r.winning_trades = Cardinality(Winning)
            /\ r.losing_trades = Cardinality(Losing)
            /\ r.winning_trades + r.losing_trades = r.num_trades
            /\ r.win_rate = IF r.num_trades = 0 THEN Zero
                            ELSE Frac(r.winning_trades, r.num_trades)
            /\ IF losses = Zero THEN r.profit_factor = Infinity
               ELSE /\ r.profit_factor # Infinity
                    /\ Times(r.profit_factor, Minus(Zero, losses)) = wins
            /\ \E k \in 1..Len(backtest.equity_curve) :
                   \E j \in 1..k : r.max_drawdown = Fall(j, k)
            /\ \A k \in 1..Len(backtest.equity_curve) :
                   \A j \in 1..k : LessEq(Fall(j, k), r.max_drawdown)
            /\ LessEq(Zero, r.max_drawdown)

\* winners and losers, a trade of pnl 0 among the losers, a finite profit
\* factor and a drawdown
C26_Witness ==
    /\ backtest # NoRun
    /\ Returned
    /\ backtest.result.winning_trades = 1
    /\ backtest.result.losing_trades = 2
    /\ \E k \in 1..Len(backtest.trades) : backtest.trades[k].pnl = Zero
    /\ backtest.result.profit_factor = Frac(3, 2)
    /\ backtest.result.max_drawdown = Whole(2)

\* winners only: the profit factor is infinite
C26_WitnessNoLosses ==
    /\ backtest # NoRun
    /\ Returned
    /\ backtest.result.winning_trades = 2
    /\ backtest.result.losing_trades = 0
    /\ backtest.result.profit_factor = Infinity

----------------------------------------------------------------------------
\* The live trading loops: TradingBot.run_trading_loop with
\* _trading_iteration (src/main.py) and ORBTradingBot.run_trading_loop
\* (src/main_orb.py).  bot holds the running flag, the position of the loop
\* (pc), the index k of the for loop over the symbols, and the history of
\* the current iteration and of the run.  A call into the broker, the data
\* loader or the strategy may raise; the signal handler may run between any
\* two steps.

\* self.symbols, TRADING_SYMBOLS: the symbols in the order of the for loop
SymbolList == <<"SPY", "QQQ">>

Programs == {"TradingBot", "ORBTradingBot"}

NoData == << >>
NoCancel == [none |-> TRUE]

\* the state once run_trading_loop has set self.running = True (and, in
\* main_orb.py, has reset the strategy's daily state)
NewBot(program) ==
    [program |-> program, running |-> TRUE, pc |-> "while", k |-> 0,
     df |-> NoData, iterations |-> 0,
     evaluated |-> {}, failed |-> {}, completed |-> {},
     errors |-> 0, alerts |-> 0, submitted |-> {}, rejected |-> {},
     exit |-> "None", cancel |-> NoCancel]

\* the bars fetch_1m_bars returns at time t: the window bars and, after the
\* window, a current bar at the stop level or breaking out on volume
LiveBars(t) ==
    IF InOrWindow(t.minute)
    THEN { WindowBars(t.date, OrBarsBound, <<103, 100, 100>>)
             \o <<Bar(t.date, t.minute, 100, 100, 100, 100)>> }
    ELSE { WindowBars(t.date, OrBarsBound, <<103, 100, 100>>)
             \o <<Bar(t.date, t.minute, c, c, c, 400)>> : c \in {101, 104} }

\* the times of day at which an iteration may start
LiveTimes == {0, MARKET_OPEN, OR_CALC_START, OR_CALC_END, MARKET_CLOSE}

\* what fetch_1m_bars may return in the course of the day
LiveFetches == UNION { LiveBars([date |-> 1, minute |-> m]) : m \in LiveTimes } \cup {NoData}

\* "while self.running"
loop_test_ignoring_flag(b) == TRUE
loop_test(b) == b.running

\* "if not self.running: break" at the head of main_orb.py's for loop; the
\* for loop of main.py has no such test
for_loop_break(b) == b.program = "ORBTradingBot" /\ ~b.running

\* an iteration begins: nothing evaluated yet
begin_iteration(b) ==
    [b EXCEPT !.iterations = @ + 1, !.k = 0, !.df = NoData,
              !.evaluated = {}, !.failed = {}, !.completed = {}]

\* an exception reaches "except Exception" of the loop
raise_to_loop(b) == [b EXCEPT !.pc = "handler", !.errors = @ + 1, !.df = NoData]

\* "except Exception as e": log, send_error_alert (which catches whatever
\* its channels raise), sleep one interval, back to the while test
on_exception_leaving_loop(b) == [b EXCEPT !.pc = "shutdown", !.alerts = @ + 1]
on_exception(b) == [b EXCEPT !.pc = "while", !.alerts = @ + 1]

\* the evaluation of SymbolList[b.k] has come to its end; on to the next
next_symbol(b) ==
    [b EXCEPT !.pc = "symbols", !.k = @ + 1, !.df = NoData,
              !.completed = @ \cup {SymbolList[b.k]}]

InitLive ==
    /\ opening_ranges = EmptyDict
    /\ positions = EmptyDict
    /\ daily_pnl = 0
    /\ daily_starting_equity = Equity
    /\ last_reset_date = 1
    /\ is_daily_stopped = FALSE
    /\ max_positions = MaxPositions
    /\ check_false_breakout = TRUE
    /\ now = [date |-> 1, minute |-> 0]
    /\ loop_phase = "None"
    /\ signal = NoSignal
    /\ call = NoCall
    /\ realized = 0
    /\ trades = 0
    /\ risk_manager = RiskManagerInit
    /\ risk_call = NoRiskCall
    /\ last_observation = NoDate
    /\ backtest = NoRun
    /\ bot \in { NewBot(program) : program \in Programs }

\* main_orb.py lines 235-260: the while test has passed; the phase of the
\* clock decides between a wait, the end of the day and an iteration over
\* the symbols, which begins with broker.get_account()
OrbIterationStart(raises) ==
    /\ bot.program = "ORBTradingBot"
    /\ bot.pc = "while"
    /\ loop_test(bot)
    /\ bot.iterations < MaxIterations
    /\ LET phase == get_trading_phase(now.minute)
           b == begin_iteration(bot)
       IN  /\ loop_phase' = phase
           /\ IF phase \in {"pre_market", "noise"}
              THEN /\ ~raises
                   /\ bot' = [b EXCEPT !.pc = "sleep"]
              ELSE IF phase = "after_hours"
              THEN \* _print_daily_summary asks the broker for the account
                   bot' = IF raises THEN raise_to_loop(b)
                          ELSE [b EXCEPT !.pc = "shutdown", !.exit = "after_hours"]
              ELSE bot' = IF raises THEN raise_to_loop(b)
                          ELSE [b EXCEPT !.pc = "symbols", !.k = 1]
    /\ UNCHANGED <<strategy, config, now, signal, call, realized, trades, risk,
                   backtest>>

\* main_orb.py lines 263-270: the head of the for loop and fetch_1m_bars,
\* which returns None when the fetch raises or brings nothing
OrbNextSymbol(df) ==
    /\ bot.program = "ORBTradingBot"
    /\ bot.pc = "symbols"
    /\ df \in LiveBars(now) \cup {NoData}
    /\ IF bot.k > Len(SymbolList) \/ for_loop_break(bot)
       THEN /\ df = NoData
            /\ bot' = [bot EXCEPT !.pc = "sleep"]
       ELSE LET b == [bot EXCEPT !.evaluated = @ \cup {SymbolList[bot.k]}]
            IN  bot' = IF df = NoData
                       THEN next_symbol([b EXCEPT !.failed = @ \cup {SymbolList[bot.k]}])
                       ELSE [b EXCEPT !.pc = "generate", !.df = df]
    /\ UNCHANGED <<strategy, config, now, loop_phase, signal, call, realized,
                   trades, risk, backtest>>

\* main_orb.py line 273: strategy.generate_signal(df, symbol, equity), in
\* no try block of its own
OrbGenerateSignal(raises) ==
    /\ bot.program = "ORBTradingBot"
    /\ bot.pc = "generate"
    /\ LET symbol == SymbolList[bot.k]
       IN  IF raises
           THEN /\ bot' = raise_to_loop([bot EXCEPT !.failed = @ \cup {symbol}])
                /\ UNCHANGED <<strategy, signal, realized, trades>>
           ELSE \E r \in {generate_signal(Self, bot.df, symbol, Equity, now)} :
                  /\ SetSelf(r.self)
                  /\ signal' = r.sig
                  /\ trades' = IF r.sig.signal_type = "BUY" THEN trades + 1 ELSE trades
                  /\ realized' = daily_pnl' - daily_pnl + realized
                  /\ bot' = IF r.sig.signal_type = "HOLD" THEN next_symbol(bot)
                            ELSE [bot EXCEPT !.pc = "execute"]
    /\ UNCHANGED <<config, now, loop_phase, call, risk, backtest>>

\* main_orb.py lines 154-214: execute_signal.  broker.submit_order raises
\* when the order is refused; the except clause of execute_signal logs,
\* alerts and returns False.
OrbExecuteSignal(accepted) ==
    /\ bot.program = "ORBTradingBot"
    /\ bot.pc = "execute"
    /\ LET symbol == SymbolList[bot.k]
       IN  IF signal.signal_type = "BUY" /\ signal.shares > 0
           THEN bot' = next_symbol(
                    IF accepted THEN [bot EXCEPT !.submitted = @ \cup {symbol}]
                    ELSE [bot EXCEPT !.rejected = @ \cup {symbol},
                                     !.failed = @ \cup {symbol}])
           ELSE /\ accepted
                /\ bot' = next_symbol(bot)
    /\ signal' = NoSignal
    /\ UNCHANGED <<strategy, config, now, loop_phase, call, realized, trades,
                   risk, backtest>>

\* main.py lines 124-154: the while test has passed and _trading_iteration
\* begins: account and positions from the broker, the risk status (a
\* blocked status ends the iteration), the stop and target check
MainIterationStart(outcome) ==
    /\ bot.program = "TradingBot"
    /\ bot.pc = "while"
    /\ loop_test(bot)
    /\ bot.iterations < MaxIterations
    /\ bot' = LET b == begin_iteration(bot)
              IN  CASE outcome = "raises" -> raise_to_loop(b)
                    [] outcome = "blocked" -> [b EXCEPT !.pc = "sleep"]
                    [] outcome = "ok" -> [b EXCEPT !.pc = "symbols", !.k = 1]
    /\ UNCHANGED <<strategy, config, now, loop_phase, signal, call, realized,
                   trades, risk, backtest>>

\* main.py lines 157-190: one turn of the for loop, whose body is one try
\* block (bars, signal, order, alert) with "except Exception" logging the
\* error; after the last symbol, update_pending_orders
MainNextSymbol(outcome) ==
    /\ bot.program = "TradingBot"
    /\ bot.pc = "symbols"
    /\ IF bot.k > Len(SymbolList) \/ for_loop_break(bot)
       THEN bot' = CASE outcome = "raises" -> raise_to_loop(bot)
                     [] outcome = "ok" -> [bot EXCEPT !.pc = "sleep"]
                     [] OTHER -> bot
       ELSE LET symbol == SymbolList[bot.k]
                b == [bot EXCEPT !.evaluated = @ \cup {symbol}]
            IN  bot' = CASE outcome = "raises" ->
                              next_symbol([b EXCEPT !.failed = @ \cup {symbol}])
                         [] outcome = "order" ->
                              next_symbol([b EXCEPT !.submitted = @ \cup {symbol}])
                         [] outcome = "ok" -> next_symbol(b)
                         [] OTHER -> bot
    /\ bot' # bot
    /\ UNCHANGED <<strategy, config, now, loop_phase, signal, call, realized,
                   trades, risk, backtest>>

\* time.sleep at the end of an iteration; the clock moves on
Sleep(m) ==
    /\ bot.pc = "sleep"
    /\ m >= now.minute
    /\ now' = [now EXCEPT !.minute = m]
    /\ bot' = [bot EXCEPT !.pc = "while"]
    /\ UNCHANGED <<strategy, config, loop_phase, signal, call, realized, trades,
                   risk, backtest>>

\* the except clause of the loop
OnException ==
    /\ bot.pc = "handler"
    /\ bot' = on_exception(bot)
    /\ UNCHANGED <<strategy, config, now, loop_phase, signal, call, realized,
                   trades, risk, backtest>>

\* the while test fails: the loop is left for shutdown()
LoopExit ==
    /\ bot.pc = "while"
    /\ ~loop_test(bot)
    /\ bot' = [bot EXCEPT !.pc = "shutdown", !.exit = "flag"]
    /\ UNCHANGED <<strategy, config, now, loop_phase, signal, call, realized,
                   trades, risk, backtest>>

\* shutdown()
Shutdown ==
    /\ bot.pc = "shutdown"
    /\ bot' = [bot EXCEPT !.pc = "stopped", !.running = FALSE]
    /\ UNCHANGED <<strategy, config, now, loop_phase, signal, call, realized,
                   trades, risk, backtest>>

\* signal_handler: SIGINT or SIGTERM arrives while the loop runs
SignalHandler ==
    /\ bot.running
    /\ bot.pc \notin {"shutdown", "stopped"}
    /\ bot' = [bot EXCEPT !.running = FALSE,
                          !.cancel = [pc |-> bot.pc, k |-> bot.k,
                                      iterations |-> bot.iterations,
                                      evaluated |-> bot.evaluated]]
    /\ UNCHANGED <<strategy, config, now, loop_phase, signal, call, realized,
                   trades, risk, backtest>>

NextLive ==
    \/ \E raises \in BOOLEAN : OrbIterationStart(raises)
    \/ \E df \in LiveFetches : OrbNextSymbol(df)
    \/ \E raises \in BOOLEAN : OrbGenerateSignal(raises)
    \/ \E accepted \in BOOLEAN : OrbExecuteSignal(accepted)
    \/ \E outcome \in {"ok", "blocked", "raises"} : MainIterationStart(outcome)
    \/ \E outcome \in {"ok", "order", "raises"} : MainNextSymbol(outcome)
    \/ \E m \in LiveTimes : Sleep(m)
    \/ OnException
    \/ LoopExit
    \/ Shutdown
    \/ SignalHandler

SpecLive == InitLive /\ [][NextLive]_vars

\* the symbols of one iteration
LiveSymbols == { SymbolList[j] : j \in 1..Len(SymbolList) }

\* the for loop over the symbols has been left
AfterSymbols == bot.pc \in {"sleep", "handler", "while", "shutdown", "stopped"}

\* C27: a failure while one symbol is evaluated is contained at that
\* symbol: once the for loop of the iteration has been left (and nobody
\* asked the loop to stop), every symbol of the iteration has been
\* evaluated, whichever symbols failed.
C27_FailureContained ==
    (bot.failed # {} /\ AfterSymbols /\ bot.cancel = NoCancel)
        => bot.evaluated = LiveSymbols

\* C28: outside the moment between generate_signal and execute_signal, the
\* strategy of the ORB bot holds a Position only for a symbol whose buy
\* order was successfully submitted.
C28_PositionsAccepted ==
    (bot.program = "ORBTradingBot" /\ bot.pc # "execute")
        => DOMAIN positions \subseteq bot.submitted

\* C29: an exception raised inside an iteration reaches the handler of the
\* loop and nothing else; the handler sends one error alert, sleeps and
\* goes back to the while test; the while test starts the next iteration
\* when the running flag is true; the loop is left only when the flag is
\* false or when the ORB bot finds the trading day over.
C29_LoopSurvives ==
    [][ /\ (bot'.errors # bot.errors)
            => (bot'.errors = bot.errors + 1 /\ bot'.pc = "handler")
        /\ (bot.pc = "handler" /\ bot'.pc # "handler")
            => (bot'.pc = "while" /\ bot'.alerts = bot.alerts + 1
                /\ bot'.running = bot.running)
        /\ (bot.pc = "while" /\ bot.running /\ bot'.pc # "while")
            => (bot'.iterations = bot.iterations + 1
                /\ (bot'.pc = "shutdown" => bot'.exit = "after_hours"))
        /\ (bot.pc # "shutdown" /\ bot'.pc = "shutdown")
            => (~bot.running \/ bot'.exit = "after_hours") ]_vars

\* an iteration evaluates symbols after an earlier iteration raised, was
\* alerted and slept
C29_Witness ==
    /\ bot.alerts >= 1
    /\ bot.alerts = bot.errors
    /\ bot.running
    /\ bot.iterations >= 2
    /\ bot.pc = "symbols"
    /\ bot.k = 2

C29_WitnessOrb == C29_Witness /\ bot.program = "ORBTradingBot"

\* the request came while the iteration was in its for loop
CancelledInLoop ==
    /\ bot.cancel # NoCancel
    /\ bot.cancel.pc \in {"symbols", "generate", "execute"}

\* C30, as stated: when cancellation is requested during an iteration (and
\* nothing raises), the iteration still evaluates all its symbols.
C30_AllSymbolsEvaluated ==
    (CancelledInLoop /\ AfterSymbols /\ bot.errors = 0)
        => bot.evaluated = LiveSymbols

\* C30, amended: after a request for cancellation no iteration is started;
\* the symbol under evaluation at the request is evaluated to its end, its
\* order submission included; TradingBot goes on to evaluate every
\* remaining symbol while ORBTradingBot starts no further symbol; the while
\* test then leaves the loop and shutdown runs.
C30_Cancellation ==
    /\ [](bot.cancel # NoCancel =>
            /\ ~bot.running
            /\ bot.iterations = bot.cancel.iterations
            /\ (bot.cancel.pc = "execute" /\ bot.pc # "execute")
                  => SymbolList[bot.cancel.k] \in bot.completed
            /\ (bot.cancel.pc = "generate" /\ bot.pc \notin {"generate", "execute"})
                  => SymbolList[bot.cancel.k] \in bot.completed \cup bot.failed
            /\ (bot.program = "TradingBot" /\ CancelledInLoop /\ AfterSymbols)
                  => bot.evaluated = LiveSymbols
            /\ bot.program = "ORBTradingBot"
                  => bot.evaluated = bot.cancel.evaluated)
    /\ [][ /\ (bot.pc = "while" /\ ~bot.running /\ bot'.pc # "while")
               => bot'.pc = "shutdown"
           /\ (bot.pc = "shutdown" /\ bot'.pc # "shutdown")
               => bot'.pc = "stopped" ]_vars

\* the ORB bot was asked to stop with an order about to be submitted for
\* its first symbol: the order went out, the second symbol was never
\* started, and shutdown has run
C30_Witness ==
    /\ bot.program = "ORBTradingBot"
    /\ bot.cancel # NoCancel
    /\ bot.cancel.pc = "execute"
    /\ bot.cancel.k = 1
    /\ bot.submitted = {SymbolList[1]}
    /\ bot.evaluated = {SymbolList[1]}
    /\ bot.pc = "stopped"

\* TradingBot was asked to stop before its first symbol and evaluated both
C30_WitnessMain ==
    /\ bot.program = "TradingBot"
    /\ CancelledInLoop
    /\ bot.cancel.k = 1
    /\ bot.evaluated = LiveSymbols
    /\ bot.pc = "stopped"
----------------------------------------------------------------------------
\* MACrossoverStrategy (src/src/strategy/ma_crossover.py) with its default
\* periods, and the backtest of it: run asks the strategy itself for the
\* signal of each bar.  A series is the sequence of its closes.

fast_period == 10
slow_period == 20

\* a float: a number, or float('nan'), with which every comparison is False
Num(v) == [nan |-> FALSE, value |-> v]
NaN == [nan |-> TRUE, value |-> 0]
Greater(x, y) == ~x.nan /\ ~y.nan /\ x.value > y.value
GreaterEq(x, y) == ~x.nan /\ ~y.nan /\ x.value >= y.value

\* closes[a] + ... + closes[b]
RECURSIVE range_sum(_, _, _)
range_sum(closes, a, b) ==
    IF a > b THEN 0
    ELSE IF a = b THEN closes[a]
    ELSE LET mid == (a + b) \div 2
         IN  range_sum(closes, a, mid) + range_sum(closes, mid + 1, b)

\* rolling(window).mean() at bar k, as the window's sum (the mean times
\* window); NaN until the window is full
rolling(closes, k, window) ==
    IF k < window THEN NaN ELSE Num(range_sum(closes, k - window + 1, k))

\* ma_diff = sma_fast - sma_slow at bar k, times fast_period * slow_period
ma_diff(closes, k) ==
    LET sma_fast == rolling(closes, k, fast_period)
        sma_slow == rolling(closes, k, slow_period)
    IN  IF sma_fast.nan \/ sma_slow.nan THEN NaN
        ELSE Num(slow_period * sma_fast.value - fast_period * sma_slow.value)

\* ma_diff.shift(1)
ma_diff_prev(closes, k) == IF k <= 1 THEN NaN ELSE ma_diff(closes, k - 1)

cross_above(closes, k) ==
    /\ Greater(ma_diff(closes, k), Num(0))
    /\ GreaterEq(Num(0), ma_diff_prev(closes, k))

cross_below(closes, k) ==
    /\ Greater(Num(0), ma_diff(closes, k))
    /\ GreaterEq(ma_diff_prev(closes, k), Num(0))

\* a strategy that wants the averages strictly apart before a crossing
ma_generate_signal_strict(df) ==
    IF Len(df) < slow_period + 1 THEN "HOLD"
    ELSE IF Greater(ma_diff(df, Len(df)), Num(0))
              /\ Greater(Num(0), ma_diff_prev(df, Len(df))) THEN "BUY"
    ELSE IF Greater(Num(0), ma_diff(df, Len(df)))
              /\ Greater(ma_diff_prev(df, Len(df)), Num(0)) THEN "SELL"
    ELSE "HOLD"

\* MACrossoverStrategy.generate_signal on the slice df: the signal type
ma_generate_signal(df) ==
    IF Len(df) < slow_period + 1 THEN "HOLD"
    ELSE IF cross_above(df, Len(df)) THEN "BUY"
    ELSE IF cross_below(df, Len(df)) THEN "SELL"
    ELSE "HOLD"

\* one turn of the loop of run, the signal coming from the strategy
CrossoverBar(signal_type) ==
    /\ backtest.i < Len(backtest.data)
    /\ signal_type \in
         {"None", ma_generate_signal(SubSeq(backtest.data, 1, backtest.i + 1))}
    /\ ProcessBar(signal_type)

NextCrossover ==
    \/ \E signal_type \in SignalTypes \cup {"None"} : CrossoverBar(signal_type)
    \/ Finish

SpecCrossover == InitBacktest /\ [][NextCrossover]_vars

\* the mean of the n closes up to bar t lies above (Above) or below the
\* mean of the m closes up to bar t
WindowTotal(t, n) == SeqSum(SubSeq(backtest.data, t - n + 1, t))
FastAboveSlow(t) ==
    WindowTotal(t, fast_period) * slow_period > WindowTotal(t, slow_period) * fast_period
FastBelowSlow(t) ==
    WindowTotal(t, fast_period) * slow_period < WindowTotal(t, slow_period) * fast_period

\* the fast average crosses the slow one upwards, or downwards, at bar t
CrossesUp(t) == t >= slow_period + 1 /\ FastAboveSlow(t) /\ ~FastAboveSlow(t - 1)
CrossesDown(t) == t >= slow_period + 1 /\ FastBelowSlow(t) /\ ~FastBelowSlow(t - 1)

\* the series of the scenario: one upward crossing, at bar 21, no downward
\* one, and after bar 21 no close at or beyond the levels of the position
\* entered at bar 21
CrossingBar == slow_period + 1
ScenarioEntry == Times(Whole(backtest.data[CrossingBar]), Plus(One, Engine.slippage_pct))
Scenario ==
    /\ Len(backtest.data) >= CrossingBar
    /\ \A t \in 1..Len(backtest.data) :
          /\ CrossesUp(t) <=> t = CrossingBar
          /\ ~CrossesDown(t)
    /\ \A t \in (CrossingBar + 1)..Len(backtest.data) :
          /\ Less(Times(ScenarioEntry, Minus(One, RunArgs.stop_loss_pct)),
                  Whole(backtest.data[t]))
          /\ Less(Whole(backtest.data[t]),
                  Times(ScenarioEntry, Plus(One, RunArgs.take_profit_pct)))

\* C35: every signal the crossover strategy gives the backtest is BUY
\* exactly when the slice has slow_period + 1 bars or more and the fast
\* average is above the slow one on the bar and not above it on the bar
\* before, SELL exactly in the mirrored case, and HOLD otherwise; and a
\* backtest over a series of the scenario returns exactly one trade, entered
\* at bar 21 at its close * (1 + slippage_pct) and closed at the final close
\* with exit_reason end_of_data.
C35_Crossover ==
    /\ \A k \in 1..Len(backtest.signals) :
          LET s == backtest.signals[k]
          IN  /\ s.signal_type = "BUY" <=> CrossesUp(s.timestamp)
              /\ s.signal_type = "SELL" <=> CrossesDown(s.timestamp)
              /\ s.signal_type \in {"BUY", "SELL", "HOLD"}
    /\ (Returned /\ Scenario) =>
          /\ backtest.result.num_trades = 1
          /\ LET t == backtest.result.trades[1]
             IN  /\ t.entry_date = CrossingBar
                 /\ t.entry_price = ScenarioEntry
                 /\ t.exit_date = Len(backtest.data)
                 /\ t.exit_price = Whole(backtest.data[Len(backtest.data)])
                 /\ t.exit_reason = "end_of_data"

\* flat averages up to bar 20, a crossing at bar 21 and one more bar
\* between the levels
C35_Witness ==
    /\ Returned /\ Scenario
    /\ Len(backtest.data) = CrossingBar + 1
    /\ backtest.data[slow_period] = WarmupClose
    /\ backtest.result.num_trades = 1
    /\ backtest.result.trades[1].exit_reason = "end_of_data"

\* a downward crossing at bar 21, with nothing to sell
C35_WitnessSell ==
    /\ Len(backtest.signals) = 2
    /\ backtest.signals[2] = [timestamp |-> CrossingBar, signal_type |-> "SELL"]
    /\ backtest.opened = 0
----------------------------------------------------------------------------
\* TradingBot._trading_iteration (src/main.py) with the OrderManager
\* (src/src/execution/order_manager.py) and the RiskManager.  bot holds the
\* order manager and the position of the iteration: pc, the index k of the
\* for loop, the orders sent to the broker in the current iteration, the
\* symbols with a buy in trade_history, and what the last call of
\* get_risk_status returned.  The broker answers every get_account and
\* get_positions with any account and any positions of the sets below.

\* equity at its peak, 14% and 15% below it, and 5% below it
OrderAccounts == { Account(e, e, e) : e \in {100, 95, 86, 85} }

\* a broker Position: the risk manager reads symbol and market_value, the
\* order manager symbol and current_price
BrokerPosition(symbol, quantity, price) ==
    [symbol |-> symbol, market_value |-> quantity * price,
     current_price |-> price]

\* no position; or two shares of the first symbol at its stop, between the
\* levels, and at its target
OrderHoldings ==
    {<< >>} \cup { <<BrokerPosition(SymbolList[1], 2, p)>> : p \in {1, 2, 3} }

\* the strategy's signal for a symbol: full strength, price 2, stop 1 and
\* target 3
OrderSignal(symbol, type) ==
    [symbol |-> symbol, signal_type |-> type, strength |-> Ratio(1, 1),
     price |-> 2, stop_loss |-> 1, take_profit |-> 3]

NoStatus == [none |-> TRUE]
NoDecision == [none |-> TRUE]

Order(symbol, side, cause) == [symbol |-> symbol, side |-> side, cause |-> cause]

\* OrderManager.__init__ and the bot before its first iteration
NewOrderManager ==
    [pc |-> "idle", k |-> 0, blocked |-> FALSE,
     refreshed |-> FALSE, orders |-> {}, trade_history |-> {},
     status |-> NoStatus, decision |-> NoDecision,
     after_reset |-> FALSE, first_after_reset |-> FALSE]

\* calculate_shares: int(position_size / price), 0 for a price of 0 or less
calculate_shares(size, price) ==
    IF price <= 0 THEN 0
    ELSE size.num \div (size.den * price)

\* check_stop_loss_take_profit: the closing orders for the positions whose
\* last buy in trade_history has its stop or its target reached
check_stop_loss_take_profit(om, held, sig) ==
    { Order(held[j].symbol, "sell",
            IF held[j].current_price <= sig.stop_loss THEN "stop_loss"
            ELSE "take_profit") :
        j \in { h \in 1..Len(held) :
                  /\ held[h].symbol \in om.trade_history
                  /\ \/ held[h].current_price <= sig.stop_loss
                     \/ held[h].current_price >= sig.take_profit } }

\* the bot takes note of a get_risk_status call
observe(om, status) ==
    [om EXCEPT !.status = [can_trade |-> status.can_trade,
                           blocked_reason |-> status.blocked_reason,
                           daily_pnl_pct |-> status.daily_pnl_pct,
                           weekly_pnl_pct |-> status.weekly_pnl_pct,
                           current_drawdown_pct |-> status.current_drawdown_pct],
               !.first_after_reset = om.after_reset,
               !.after_reset = FALSE]

\* an iteration that looks after the open positions before the risk status
trading_iteration_stops_first(om, rm, account, held, today) ==
    CHOOSE out \in
      { LET begun == [observe(om, r.status) EXCEPT
                         !.refreshed = FALSE,
                         !.decision = NoDecision,
                         !.orders = check_stop_loss_take_profit(
                                        om, held, OrderSignal("None", "BUY"))]
        IN  [rm |-> r.self,
             om |-> IF ~r.status.can_trade
                    THEN [begun EXCEPT !.blocked = TRUE, !.pc = "idle"]
                    ELSE [begun EXCEPT !.blocked = FALSE, !.pc = "symbols", !.k = 1]] :
          r \in {get_risk_status(rm, account, held, today)} } : TRUE

\* _trading_iteration up to its for loop (lines 143-154); r is the one
\* result of the one get_risk_status call
trading_iteration(om, rm, account, held, today) ==
    CHOOSE out \in
      { LET begun == [observe(om, r.status) EXCEPT
                         !.refreshed = FALSE,
                         !.decision = NoDecision, !.orders = {}]
        IN  [rm |-> r.self,
             om |-> IF ~r.status.can_trade
                    THEN [begun EXCEPT !.blocked = TRUE, !.pc = "idle"]
                    ELSE [begun EXCEPT
                             !.blocked = FALSE, !.pc = "symbols", !.k = 1,
                             !.orders = check_stop_loss_take_profit(
                                            om, held, OrderSignal("None", "BUY"))]] :
          r \in {get_risk_status(rm, account, held, today)} } : TRUE

\* a buy that is sent whatever the validation says
execute_buy_unvalidated(om, rm, sig, account, held, today, accepted) ==
    CHOOSE out \in
      { LET seen == [observe(om, r.status)
                        EXCEPT !.decision = [symbol |-> sig.symbol,
                                             is_valid |-> v.result.is_valid,
                                             reason |-> v.result.reason]]
        IN  [rm |-> v.self,
             om |-> IF ~accepted THEN seen
                    ELSE [seen EXCEPT
                             !.orders = @ \cup {Order(sig.symbol, "buy", "signal")},
                             !.trade_history = @ \cup {sig.symbol}]] :
          v \in {validate_signal(rm, sig, account, held, today)},
          r \in {get_risk_status(rm, account, held, today)} } : TRUE

\* _execute_buy: validate_signal, calculate_shares, broker.submit_order
\* (accepted: the broker takes the order; it raises otherwise)
\* v is the one result of the one validate_signal call, and r what its
\* get_risk_status returned
execute_buy(om, rm, sig, account, held, today, accepted) ==
    CHOOSE out \in
      { LET seen == [observe(om, r.status)
                        EXCEPT !.decision = [symbol |-> sig.symbol,
                                             is_valid |-> v.result.is_valid,
                                             reason |-> v.result.reason]]
        IN  [rm |-> v.self,
             om |-> IF ~v.result.is_valid THEN seen
                    ELSE IF calculate_shares(v.result.size, sig.price) < 1 THEN seen
                    ELSE IF ~accepted THEN seen
                    ELSE [seen EXCEPT
                             !.orders = @ \cup {Order(sig.symbol, "buy", "signal")},
                             !.trade_history = @ \cup {sig.symbol}]] :
          v \in {validate_signal(rm, sig, account, held, today)},
          r \in {get_risk_status(rm, account, held, today)} } : TRUE

\* _execute_sell: broker.close_position for a symbol that is held
execute_sell(om, sig, held, accepted) ==
    IF (\E j \in 1..Len(held) : held[j].symbol = sig.symbol) /\ accepted
    THEN [om EXCEPT !.orders = @ \cup {Order(sig.symbol, "sell", "signal")}]
    ELSE om

InitOrders ==
    /\ opening_ranges = EmptyDict
    /\ positions = EmptyDict
    /\ daily_pnl = 0
    /\ daily_starting_equity = 0
    /\ last_reset_date = NoDate
    /\ is_daily_stopped = FALSE
    /\ max_positions = 1
    /\ check_false_breakout = TRUE
    /\ now \in [date : RiskStartDays, minute : {0}]
    /\ loop_phase = "None"
    /\ signal = NoSignal
    /\ call = NoCall
    /\ realized = 0
    /\ trades = 0
    /\ risk_manager = RiskManagerInit
    /\ risk_call = NoRiskCall
    /\ last_observation = NoDate
    /\ backtest = NoRun
    /\ bot = NewOrderManager

\* the iteration begins
TradingIteration(account, held) ==
    /\ bot.pc = "idle"
    /\ \E r \in {trading_iteration(bot, risk_manager, account, held, now.date)} :
         /\ bot' = r.om
         /\ risk_manager' = r.rm
    /\ UNCHANGED <<strategy, config, now, loop_phase, signal, call, realized,
                   trades, risk_call, last_observation, backtest>>

\* one turn of the for loop: the strategy's signal for the symbol, and
\* execute_signal with the account and positions the broker reports then
EvaluateSymbol(signal_type, account, held, accepted) ==
    /\ bot.pc = "symbols"
    /\ bot.k <= Len(SymbolList)
    \* what the broker would answer is drawn only where it is asked: the account
    \* by _execute_buy alone, positions and orders by neither on a HOLD
    /\ signal_type # "BUY" => account = Account(100, 100, 100)
    /\ signal_type = "HOLD" => held = << >> /\ accepted
    /\ LET sig == OrderSignal(SymbolList[bot.k], signal_type)
           r == IF signal_type = "BUY"
                THEN execute_buy(bot, risk_manager, sig, account, held, now.date, accepted)
                ELSE [rm |-> risk_manager,
                      om |-> IF signal_type = "SELL"
                             THEN execute_sell(bot, sig, held, accepted)
                             ELSE bot]
       IN  /\ bot' = [r.om EXCEPT !.k = @ + 1]
           /\ risk_manager' = r.rm
    /\ UNCHANGED <<strategy, config, now, loop_phase, signal, call, realized,
                   trades, risk_call, last_observation, backtest>>

\* the for loop is over: update_pending_orders
UpdatePendingOrders ==
    /\ bot.pc = "symbols"
    /\ bot.k > Len(SymbolList)
    /\ bot' = [bot EXCEPT !.pc = "idle", !.refreshed = TRUE]
    /\ UNCHANGED <<strategy, config, now, loop_phase, signal, call, realized,
                   trades, risk, backtest>>

\* the operator calls reset_kill_switch
OperatorReset ==
    /\ risk_manager.kill_switch_active
    /\ risk_manager' = reset_kill_switch(risk_manager)
    /\ bot' = [bot EXCEPT !.after_reset = TRUE]
    /\ UNCHANGED <<strategy, config, now, loop_phase, signal, call, realized,
                   trades, risk_call, last_observation, backtest>>

\* midnight passes between two iterations, until a Monday has come
OrdersNextDay ==
    /\ bot.pc = "idle"
    /\ weekday(now.date) # MONDAY
    /\ now' = [now EXCEPT !.date = now.date + 1]
    /\ UNCHANGED <<strategy, config, loop_phase, signal, call, realized, trades,
                   risk, backtest, bot>>

NextOrders ==
    \/ \E account \in OrderAccounts, held \in OrderHoldings :
         TradingIteration(account, held)
    \/ \E signal_type \in SignalTypes, account \in OrderAccounts,
          held \in OrderHoldings, accepted \in BOOLEAN :
         EvaluateSymbol(signal_type, account, held, accepted)
    \/ UpdatePendingOrders
    \/ OperatorReset
    \/ OrdersNextDay

SpecOrders == InitOrders /\ [][NextOrders]_vars
\* the step evaluates a BUY signal for the symbol of the for loop
BuyEvaluated ==
    /\ bot.pc = "symbols"
    /\ bot'.k = bot.k + 1
    /\ bot'.decision # bot.decision

\* C36: while the kill switch is latched every BUY that is evaluated, in
\* the same iteration or a later one, is rejected with the kill-switch
\* reason and no buy order goes to the broker; the latch stays until
\* reset_kill_switch is called.
C36_KillSwitchBlocksBuys ==
    [][ risk_manager.kill_switch_active =>
          /\ \A o \in bot'.orders \ bot.orders : o.side # "buy"
          /\ BuyEvaluated =>
               /\ ~bot'.decision.is_valid
               /\ bot'.decision.reason = "Kill switch is active"
               /\ bot'.trade_history = bot.trade_history
          /\ ~risk_manager'.kill_switch_active => bot'.after_reset ]_vars

\* the iteration began with the switch off, the first symbol's validation
\* latched it, and the BUY for the second symbol was turned down
C36_Witness ==
    /\ bot.pc = "symbols"
    /\ ~bot.blocked
    /\ bot.k = 3
    /\ bot.decision # NoDecision
    /\ bot.decision.symbol = SymbolList[2]
    /\ bot.decision.reason = "Kill switch is active"
    /\ risk_manager.kill_switch_active

\* C37: an iteration whose risk status at its start is blocked sends no
\* order, neither a buy, nor a sell on a signal, nor the close of a position
\* at its stop or target, and does not refresh the pending orders.
C37_BlockedIteration ==
    bot.blocked =>
        /\ bot.pc = "idle"
        /\ bot.orders = {}
        /\ ~bot.refreshed
        /\ ~bot.status.can_trade

\* blocked by the daily loss limit, with a buy on record from an earlier
\* iteration
C37_Witness ==
    /\ bot.blocked
    /\ bot.status.blocked_reason = "Daily loss limit reached"
    /\ bot.trade_history # {}

C37_WitnessKillSwitch ==
    /\ bot.blocked
    /\ bot.status.blocked_reason = "Kill switch is active"
    /\ bot.trade_history # {}

\* the drawdown of the last status has reached the limit while the daily
\* and weekly losses have not
DrawdownOnly ==
    /\ bot.status.current_drawdown_pct.num * PCT_DEN
         >= MAX_DRAWDOWN_PCT_NUM * bot.status.current_drawdown_pct.den
    /\ bot.status.daily_pnl_pct.num * PCT_DEN
         > 0 - MAX_DAILY_LOSS_PCT_NUM * bot.status.daily_pnl_pct.den
    /\ bot.status.weekly_pnl_pct.num * PCT_DEN
         > 0 - MAX_WEEKLY_LOSS_PCT_NUM * bot.status.weekly_pnl_pct.den

\* C38: reset_kill_switch changes kill_switch_active and nothing else of
\* the risk manager; and when the first get_risk_status after a reset
\* finds the drawdown from the peak at or over the limit, the daily and
\* weekly losses within theirs, it latches the kill switch again and
\* returns can_trade false.
C38_ResetKeepsPeak ==
    /\ [][ (bot'.after_reset /\ ~bot.after_reset) =>
             /\ risk_manager.kill_switch_active
             /\ risk_manager' = [risk_manager EXCEPT !.kill_switch_active = FALSE]
         ]_vars
    /\ []((bot.first_after_reset /\ ~bot.after_reset /\ DrawdownOnly) =>
             /\ risk_manager.kill_switch_active
             /\ ~bot.status.can_trade
             /\ bot.status.blocked_reason = "Max drawdown reached")

\* the first status after a reset latched the switch again
C38_Witness ==
    /\ bot.first_after_reset /\ ~bot.after_reset
    /\ DrawdownOnly
    /\ bot.status.blocked_reason = "Max drawdown reached"
    /\ risk_manager.kill_switch_active
    /\ risk_manager.peak_equity = 100

====
